---- MODULE Spec2Model ----
(***************************************************************************)
(* Model of the GPX map-rendering pipeline of the Photos repository:       *)
(*   src/photo_utils/map_generator.py  (generate_map used by the desktop   *)
(*                                      application, src/app.py)           *)
(*   src/GenererCarte.py               (generate_map of the command line   *)
(*                                      script, with adjust_bounds_to_ratio)*)
(*                                                                         *)
(* Units.  Geographic coordinates are integers in millidegrees.  Projected *)
(* (EPSG:3857) coordinates of the track are integers in metres.  Bounding  *)
(* boxes are integers in units of 1/Scale metre, so that the margins       *)
(* 3000 * 2^(12 - zoom) (multiples of 1/64 m up to zoom 18) and the        *)
(* halves, /8 and /3 of adjust_bounds_to_ratio are exact.                  *)
(* Times are integers (hours on a short time line).                        *)
(***************************************************************************)
EXTENDS Integers, Sequences, FiniteSets, TLC

VARIABLES
    module,            \* which generate_map runs: "map_generator" or "GenererCarte"
    gpx,               \* the parsed track file: tracks -> segments -> points
    start_time,        \* parameter start_time (rebound zone-naive at lines 289-290)
    end_time,          \* parameter end_time   (rebound zone-naive at lines 291-292)
    marge,             \* parameter marge (optional margin override, metres)
    pc,                \* position of generate_map
    points,            \* the list `points` of (lon, lat) built by the time filter
    line_proj,         \* gdf_line_proj: the track projected to EPSG:3857 (metres)
    zoom,              \* zoom computed by calculate_zoom_for_extent
    buffer_size,       \* buffer_size, a rational number of metres [num, den]
    bounds,            \* xmin, ymin, xmax, ymax (units of 1/Scale m)
    buffered_bounds,   \* buffered.total_bounds (units of 1/Scale m)
    cities_left,       \* number of entries of city_list not yet geocoded
    geocode_requests,  \* number of HTTP requests sent to the geocoder
    makedirs_calls,    \* number of os.makedirs(CACHE_DIR) calls
    tile_fetches,      \* number of ctx.bounds2img calls
    cache_writes,      \* number of files written into CACHE_DIR
    basemap_extent,    \* the box passed to get_or_download_basemap
    axis_limits,       \* the box given to ax.set_xlim / ax.set_ylim
    output_written,    \* the output JPEG has been written
    exif_written,      \* metadata has been written into the output
    probe,             \* state of a stand-alone call of a pure function
    city_list,         \* parameter city_list: the place names to label, in order
    city_points,       \* the list city_points of the cities that get a marker
    geocode_calls,     \* the geocode_city calls made: city, requests sent, result
    warnings,          \* the cities logged as outside the perimeter and ignored
    cache_files,       \* the files of CACHE_DIR: per key, the raster and the bounds
    invocations,       \* the get_or_download_basemap invocations sharing CACHE_DIR
    provider_calls,    \* per key, the number of ctx.bounds2img calls made
    actions,           \* the application's list of action configurations
    threads,           \* the worker threads started by the application
    ref_image,         \* parameter ref_image, looked at by the metadata step only
    exif_tags          \* the metadata step's outcome and the tags in the output

exif_vars == <<ref_image, exif_tags>>

city_vars == <<city_list, city_points, geocode_calls, warnings>>

cache_vars == <<cache_files, invocations, provider_calls>>

app_vars == <<actions, threads>>

vars == <<module, gpx, start_time, end_time, marge, pc, points, line_proj, zoom,
          buffer_size, bounds, buffered_bounds, cities_left, geocode_requests,
          makedirs_calls, tile_fetches, cache_writes, basemap_extent, axis_limits,
          output_written, exif_written, exif_vars, probe, city_vars, cache_vars, app_vars>>

-----------------------------------------------------------------------------
(* Bounds of the model *)

MaxPoints == 3

MaxCities == 1

MaxCalls == 2

MaxThreads == 3

(* Program constants *)

WidthPx == 3600

HeightPx == 2700

TempBuffer == 1000

MinPoints == 2

MaxZoom == 18

MinZoom == 0

MarginBase == 3000

MarginZoom == 12

TargetRatioNum == 4

TargetRatioDen == 3

(* Units of a bounding box per metre. *)
Scale == 8 * 8 * 3

-----------------------------------------------------------------------------
(* Optional values.  Python's None is a record of the same shape as the     *)
(* values it stands beside.                                                 *)

NoTime == [kind |-> "none", t |-> 0]

Naive(h) == [kind |-> "naive", t |-> h]

Aware(h) == [kind |-> "aware", t |-> h]

NoMarge == [given |-> FALSE, m |-> 0]

Marge(m) == [given |-> TRUE, m |-> m]

NoBox == [xmin |-> 0, ymin |-> 0, xmax |-> 0, ymax |-> 0]

Box(a, b, c, d) == [xmin |-> a, ymin |-> b, xmax |-> c, ymax |-> d]

NoRational == [num |-> 0, den |-> 1]

Pow2(n) == 2 ^ n

SeqMin(f, n) == CHOOSE v \in {f[i] : i \in 1..n} : \A i \in 1..n : v <= f[i]

SeqMax(f, n) == CHOOSE v \in {f[i] : i \in 1..n} : \A i \in 1..n : v >= f[i]

-----------------------------------------------------------------------------
(* Time.  A zone-aware timestamp Aware(u) is the instant u (UTC hours);     *)
(* astimezone(Europe/Paris) gives the Paris wall clock, UTC+1 in winter and *)
(* UTC+2 once summer time has begun (here at instant 2 of the time line).   *)

ParisOffset(u) == IF u >= 2 THEN 2 ELSE 1

(* p_time.astimezone(tz_france).replace(tzinfo=None), or p_time unchanged *)
NormalizePointTime(ptime) ==
    IF ptime.kind = "aware" THEN Naive(ptime.t + ParisOffset(ptime.t)) ELSE ptime

(* Mutant: the window bounds left as the caller gave them *)
StripTz_Keep(bound) == bound

(* start_time.replace(tzinfo=None): the wall clock is kept, the zone dropped *)
StripTz(bound) ==
    IF bound.kind = "aware" THEN Naive(bound.t) ELSE bound

-----------------------------------------------------------------------------
(* The track file.  Positions are (lon, lat) in millidegrees.               *)

PosA == [lon |-> 5000, lat |-> 36000]

PosB == [lon |-> 5000, lat |-> 36012]

PosC == [lon |-> 5600, lat |-> 36000]

PosD == [lon |-> 5002, lat |-> 36000]

GpxPoint(pos, time) == [longitude |-> pos.lon, latitude |-> pos.lat, time |-> time]

(* The points a track file of the model may hold: one without a timestamp, *)
(* one zone-naive, two zone-aware (UTC), at Paris times 1, 2 and 4.        *)
GpxPoints ==
    { GpxPoint(PosA, NoTime), GpxPoint(PosB, Aware(0)),
      GpxPoint(PosC, Naive(2)), GpxPoint(PosD, Aware(2)) }

(* How a file splits its points: all in one segment, one segment per point, *)
(* one track per point, or segments and tracks in turn.                     *)
Layouts == {"segment", "segments", "tracks", "mixed"}

CutOf(layout, k) ==
    CASE layout = "segment" -> "pt"
      [] layout = "segments" -> "seg"
      [] layout = "tracks" -> "trk"
      [] layout = "mixed" -> IF k % 3 = 2 THEN "seg" ELSE IF k % 3 = 0 THEN "trk" ELSE "pt"

(* Appends a point to the parsed file: in the last segment, in a new segment *)
(* of the last track, or in a new track.                                     *)
AppendGpxPoint(g, p, cut) ==
    IF g = <<>> \/ cut = "trk" THEN Append(g, << <<p>> >>)
    ELSE LET nt == Len(g)
             trk == g[nt]
             ns == Len(trk)
         IN IF cut = "seg"
            THEN [g EXCEPT ![nt] = Append(trk, <<p>>)]
            ELSE [g EXCEPT ![nt] = [trk EXCEPT ![ns] = Append(trk[ns], p)]]

RECURSIVE BuildGpx(_, _, _)
BuildGpx(flat, layout, k) ==
    IF k = 0 THEN <<>>
    ELSE AppendGpxPoint(BuildGpx(flat, layout, k - 1), flat[k], CutOf(layout, k))

(* Every file of at most MaxPoints points, in each layout *)
GpxFiles ==
    UNION { { BuildGpx(flat, layout, n) : flat \in [1..n -> GpxPoints], layout \in Layouts } :
            n \in 0..MaxPoints }

(* The (start_time, end_time) arguments: no window, the windows [1, 2] and *)
(* [2, 2], a window with one bound only, and one with start after end.     *)
Windows ==
    { <<NoTime, NoTime>>, <<Naive(1), Aware(2)>>, <<Aware(2), Aware(2)>>,
      <<Naive(1), NoTime>>, <<Aware(2), Naive(1)>> }

Marges == {NoMarge, Marge(500)}

Modules == {"map_generator", "GenererCarte"}

-----------------------------------------------------------------------------
(* Time filter: generate_map, lines 294-306 *)

(* Mutant: the end of the window taken as exclusive *)
KeepPoint_OpenEnd(p, start, end) ==
    IF p.time.kind = "none" THEN FALSE
    ELSE LET p_time == NormalizePointTime(p.time)
         IN IF start.kind = "none" \/ end.kind = "none" THEN TRUE
            ELSE start.t <= p_time.t /\ p_time.t < end.t

KeepPoint(p, start, end) ==
    IF p.time.kind = "none" THEN FALSE
    ELSE LET p_time == NormalizePointTime(p.time)
         IN IF start.kind = "none" \/ end.kind = "none" THEN TRUE
            ELSE start.t <= p_time.t /\ p_time.t <= end.t

RECURSIVE FilterSegment(_, _, _, _)
FilterSegment(seg, i, start, end) ==
    IF i > Len(seg) THEN <<>>
    ELSE (IF KeepPoint(seg[i], start, end)
          THEN << [lon |-> seg[i].longitude, lat |-> seg[i].latitude] >>
          ELSE <<>>) \o FilterSegment(seg, i + 1, start, end)

RECURSIVE FilterTrack(_, _, _, _)
FilterTrack(trk, j, start, end) ==
    IF j > Len(trk) THEN <<>>
    ELSE FilterSegment(trk[j], 1, start, end) \o FilterTrack(trk, j + 1, start, end)

RECURSIVE FilterGpx(_, _, _, _)
FilterGpx(g, k, start, end) ==
    IF k > Len(g) THEN <<>>
    ELSE FilterTrack(g[k], 1, start, end) \o FilterGpx(g, k + 1, start, end)

(* Mutant: a single point accepted *)
TooFewPoints_AllowOne(pts) == Len(pts) < 1

TooFewPoints(pts) == Len(pts) < MinPoints

(* The points of the file, whatever their track and segment *)
GpxPointSet(g) ==
    UNION { UNION { {g[i][j][k] : k \in 1..Len(g[i][j])} : j \in 1..Len(g[i]) } :
            i \in 1..Len(g) }

(* line 305: start_time <= p_time <= end_time raises TypeError when a       *)
(* zone-aware and a zone-naive datetime are compared; the second comparison *)
(* is made only when the first one holds.                                   *)
ComparisonRaises(p, start, end) ==
    /\ p.time.kind # "none"
    /\ start.kind # "none"
    /\ end.kind # "none"
    /\ LET p_time == NormalizePointTime(p.time)
       IN \/ start.kind # p_time.kind
          \/ (start.t <= p_time.t /\ p_time.kind # end.kind)

FilterRaises(g, start, end) ==
    \E p \in GpxPointSet(g) : ComparisonRaises(p, start, end)

-----------------------------------------------------------------------------
(* Projection EPSG:4326 -> EPSG:3857 (to_crs), rounded to the metre:         *)
(* x = R * lon (radians) = 111.3195 m per millidegree; y = R * ln(tan(pi/4 + *)
(* lat/2)), tabulated for the latitudes of the model.                        *)

MercatorX(lon) == lon * 111 + (lon * 3195) \div 10000

MercatorY(lat) ==
    CASE lat = 36000 -> 4300621
      [] lat = 36012 -> 4302273

ToWebMercator(pts) ==
    [i \in 1..Len(pts) |-> [x |-> MercatorX(pts[i].lon), y |-> MercatorY(pts[i].lat)]]

(* A rational number of metres in units of 1/Scale m (exact for the margins) *)
ToUnits(q) == (q.num * Scale) \div q.den

(* line.buffer(r).total_bounds: the bounding box of the line grown by r on *)
(* each side; r is a rational number of metres, the box is in units.       *)
BufferTotalBounds(line, r) ==
    LET n == Len(line)
        xs == [i \in 1..n |-> line[i].x]
        ys == [i \in 1..n |-> line[i].y]
    IN Box(SeqMin(xs, n) * Scale - ToUnits(r), SeqMin(ys, n) * Scale - ToUnits(r),
           SeqMax(xs, n) * Scale + ToUnits(r), SeqMax(ys, n) * Scale + ToUnits(r))

-----------------------------------------------------------------------------
(* calculate_zoom_for_extent, map_generator.py lines 43-50 *)

(* 156543.03 * px, exact for px a multiple of 100 *)
Zoom0Span(px) == 156543 * px + (3 * px) \div 100

(* floor(log2(n / d)) for n >= d > 0 *)
FloorLog2(n, d) == CHOOSE z \in 0..30 :
    /\ n \div Pow2(z) >= d
    /\ (z = 30 \/ n \div Pow2(z + 1) < d)

(* int(np.log2(n / d)): truncation toward zero *)
IntLog2(n, d) == IF n >= d THEN FloorLog2(n, d) ELSE 0 - FloorLog2(d, n)

(* Mutant: the upper cap forgotten *)
calculate_zoom_uncapped(xmin, ymin, xmax, ymax, width_px, height_px) ==
    LET zoom_lon == IntLog2(Zoom0Span(width_px), xmax - xmin)
        zoom_lat == IntLog2(Zoom0Span(height_px), ymax - ymin)
        z == IF zoom_lon <= zoom_lat THEN zoom_lon ELSE zoom_lat
    IN IF z >= MinZoom THEN z ELSE MinZoom

(* Mutant: the quotient of the latitude term inverted *)
calculate_zoom_inverted(xmin, ymin, xmax, ymax, width_px, height_px) ==
    LET zoom_lon == IntLog2(Zoom0Span(width_px), xmax - xmin)
        zoom_lat == IntLog2(ymax - ymin, Zoom0Span(height_px))
        z == IF zoom_lon <= zoom_lat THEN zoom_lon ELSE zoom_lat
        capped == IF z <= MaxZoom THEN z ELSE MaxZoom
    IN IF capped >= MinZoom THEN capped ELSE MinZoom

(* Mutant: width_px used in the latitude term too *)
calculate_zoom_width_only(xmin, ymin, xmax, ymax, width_px, height_px) ==
    LET zoom_lon == IntLog2(Zoom0Span(width_px), xmax - xmin)
        zoom_lat == IntLog2(Zoom0Span(width_px), ymax - ymin)
        z == IF zoom_lon <= zoom_lat THEN zoom_lon ELSE zoom_lat
        capped == IF z <= MaxZoom THEN z ELSE MaxZoom
    IN IF capped >= MinZoom THEN capped ELSE MinZoom

(* int(min(zoom_lon, zoom_lat)) is the smaller of the two truncated logarithms, *)
(* truncation being monotone.  Coordinates are in metres.                        *)
calculate_zoom_for_extent(xmin, ymin, xmax, ymax, width_px, height_px) ==
    LET lon_length == xmax - xmin
        lat_length == ymax - ymin
        zoom_lon == IntLog2(Zoom0Span(width_px), lon_length)
        zoom_lat == IntLog2(Zoom0Span(height_px), lat_length)
        z == IF zoom_lon <= zoom_lat THEN zoom_lon ELSE zoom_lat
        capped == IF z <= MaxZoom THEN z ELSE MaxZoom
    IN IF capped >= MinZoom THEN capped ELSE MinZoom

(* generate_map lines 316-319: zoom of the track buffered by 1000 m *)
TempBounds(line) == BufferTotalBounds(line, [num |-> TempBuffer, den |-> 1])

ZoomForLine(line) ==
    LET t == TempBounds(line)
    IN calculate_zoom_for_extent(t.xmin \div Scale, t.ymin \div Scale,
                                 t.xmax \div Scale, t.ymax \div Scale,
                                 WidthPx, HeightPx)

(* Mutant: integer division above zoom 12 *)
BufferSizeFor_IntDiv(m, z) ==
    IF m.given THEN [num |-> m.m, den |-> 1]
    ELSE IF z <= MarginZoom
         THEN [num |-> MarginBase * Pow2(MarginZoom - z), den |-> 1]
         ELSE [num |-> MarginBase \div Pow2(z - MarginZoom), den |-> 1]

(* generate_map lines 322-327: buffer_size, a rational number of metres.  *)
(* 2 ** (12 - zoom) is an int for zoom <= 12 and the float 1/2^(zoom-12)  *)
(* above, exact in binary floating point.                                 *)
BufferSizeFor(m, z) ==
    IF m.given THEN [num |-> m.m, den |-> 1]
    ELSE IF z <= MarginZoom
         THEN [num |-> MarginBase * Pow2(MarginZoom - z), den |-> 1]
         ELSE [num |-> MarginBase, den |-> Pow2(z - MarginZoom)]

-----------------------------------------------------------------------------
(* Mutant: the larger dimension shrunk instead of the smaller one grown *)
adjust_bounds_shrinking(xmin, ymin, xmax, ymax) ==
    LET current_width == xmax - xmin
        current_height == ymax - ymin
        center_x == (xmin + xmax) \div 2
        center_y == (ymin + ymax) \div 2
    IN IF current_width * TargetRatioDen > current_height * TargetRatioNum
       THEN LET half_width == (current_height * TargetRatioNum) \div (2 * TargetRatioDen)
            IN Box(center_x - half_width, ymin, center_x + half_width, ymax)
       ELSE IF current_width * TargetRatioDen < current_height * TargetRatioNum
       THEN LET half_height == (current_width * TargetRatioDen) \div (2 * TargetRatioNum)
            IN Box(xmin, center_y - half_height, xmax, center_y + half_height)
       ELSE Box(xmin, ymin, xmax, ymax)

(* adjust_bounds_to_ratio, GenererCarte.py lines 40-75 (target_ratio = 4/3). *)
(* The box is in units; for a box whose bounds are multiples of 1/8 m the    *)
(* divisions below are exact.                                                *)
adjust_bounds_to_ratio(xmin, ymin, xmax, ymax) ==
    LET current_width == xmax - xmin
        current_height == ymax - ymin
        center_x == (xmin + xmax) \div 2
        center_y == (ymin + ymax) \div 2
    IN IF current_width * TargetRatioDen > current_height * TargetRatioNum
       THEN LET half_height == (current_width * TargetRatioDen) \div (2 * TargetRatioNum)
            IN Box(xmin, center_y - half_height, xmax, center_y + half_height)
       ELSE IF current_width * TargetRatioDen < current_height * TargetRatioNum
       THEN LET half_width == (current_height * TargetRatioNum) \div (2 * TargetRatioDen)
            IN Box(center_x - half_width, ymin, center_x + half_width, ymax)
       ELSE Box(xmin, ymin, xmax, ymax)

(* The extent generate_map renders: GenererCarte.py lines 445-448 adjust the *)
(* buffered bounds to 4:3; map_generator.py line 352 takes them as they are. *)
RenderExtent(mod, b) ==
    IF mod = "GenererCarte"
    THEN adjust_bounds_to_ratio(b.xmin, b.ymin, b.xmax, b.ymax)
    ELSE b

-----------------------------------------------------------------------------
(* The geocoding service and geocode_city, map_generator.py lines 170-196.   *)
(* A response has a status ("ok", or the failure met: the request raised, the *)
(* HTTP status was an error, the body was not JSON) and, when ok, the list   *)
(* of candidates.  A point is Point(lon, lat) in millidegrees, or None.      *)

NoPoint == [some |-> FALSE, lon |-> 0, lat |-> 0]

Point(lon, lat) == [some |-> TRUE, lon |-> lon, lat |-> lat]

PlaceIn == Point(5001, 36000)

PlaceEdge == Point(5010, 36012)

PlaceFar == Point(6000, 36000)

Ok(candidates) == [status |-> "ok", data |-> candidates]

Failure(how) == [status |-> how, data |-> <<>>]

(* What the service answers to the extent-bounded and to the unbounded query *)
(* for each place name of the model.                                         *)
Gazetteer(city) ==
    CASE city = "Near" ->
           [bounded |-> Ok(<<PlaceIn, PlaceFar>>), unbounded |-> Ok(<<PlaceFar>>)]
      [] city = "Edge" ->
           [bounded |-> Ok(<<PlaceEdge>>), unbounded |-> Ok(<<PlaceEdge>>)]
      [] city = "Stray" ->
           [bounded |-> Ok(<<PlaceFar>>), unbounded |-> Ok(<<PlaceFar>>)]
      [] city = "Homonym" ->
           [bounded |-> Ok(<<>>), unbounded |-> Ok(<<PlaceFar, PlaceIn>>)]
      [] city = "Hamlet" ->
           [bounded |-> Ok(<<>>), unbounded |-> Ok(<<PlaceIn>>)]
      [] city = "Nowhere" ->
           [bounded |-> Ok(<<>>), unbounded |-> Ok(<<>>)]
      [] city = "Timeout" ->
           [bounded |-> Failure("network"), unbounded |-> Ok(<<PlaceIn>>)]
      [] city = "Denied" ->
           [bounded |-> Failure("http_status"), unbounded |-> Ok(<<PlaceIn>>)]
      [] city = "Garbled" ->
           [bounded |-> Ok(<<>>), unbounded |-> Failure("parse")]

CityNames ==
    {"Near", "Edge", "Stray", "Homonym", "Hamlet", "Nowhere", "Timeout", "Denied",
     "Garbled"}

CityLists(names, n) == UNION { [1..k -> names] : k \in 0..n }

(* Mutant: a failed bounded request retried without bounds *)
geocode_city_retry_on_error(city) ==
    LET b == Gazetteer(city).bounded
        u == Gazetteer(city).unbounded
    IN IF b.status = "ok" /\ b.data # <<>>
       THEN [sent |-> <<"bounded">>, pt |-> b.data[1], log |-> <<>>, raised |-> FALSE]
       ELSE IF u.status # "ok"
       THEN [sent |-> <<"bounded", "unbounded">>, pt |-> NoPoint,
             log |-> <<"retry", "error">>, raised |-> FALSE]
       ELSE IF u.data # <<>>
       THEN [sent |-> <<"bounded", "unbounded">>, pt |-> u.data[1],
             log |-> <<"retry", "found_outside">>, raised |-> FALSE]
       ELSE [sent |-> <<"bounded", "unbounded">>, pt |-> NoPoint,
             log |-> <<"retry">>, raised |-> FALSE]

(* Mutant: no except clause, a failed request raises out of geocode_city *)
geocode_city_uncaught(city) ==
    LET b == Gazetteer(city).bounded
        u == Gazetteer(city).unbounded
    IN IF b.status # "ok"
       THEN [sent |-> <<"bounded">>, pt |-> NoPoint, log |-> <<>>, raised |-> TRUE]
       ELSE IF b.data # <<>>
       THEN [sent |-> <<"bounded">>, pt |-> b.data[1], log |-> <<>>, raised |-> FALSE]
       ELSE IF u.status # "ok"
       THEN [sent |-> <<"bounded", "unbounded">>, pt |-> NoPoint,
             log |-> <<"retry">>, raised |-> TRUE]
       ELSE IF u.data # <<>>
       THEN [sent |-> <<"bounded", "unbounded">>, pt |-> u.data[1],
             log |-> <<"retry", "found_outside">>, raised |-> FALSE]
       ELSE [sent |-> <<"bounded", "unbounded">>, pt |-> NoPoint,
             log |-> <<"retry">>, raised |-> FALSE]

(* geocode_city: the requests sent in order, the point returned (None when   *)
(* nothing was found or a request failed), the messages logged, and whether  *)
(* an exception left the function (never: line 194 catches Exception).       *)
geocode_city(city) ==
    LET b == Gazetteer(city).bounded
        u == Gazetteer(city).unbounded
    IN IF b.status # "ok"
       THEN [sent |-> <<"bounded">>, pt |-> NoPoint, log |-> <<"error">>,
             raised |-> FALSE]
       ELSE IF b.data # <<>>
       THEN [sent |-> <<"bounded">>, pt |-> b.data[1], log |-> <<>>, raised |-> FALSE]
       ELSE IF u.status # "ok"
       THEN [sent |-> <<"bounded", "unbounded">>, pt |-> NoPoint,
             log |-> <<"retry", "error">>, raised |-> FALSE]
       ELSE IF u.data # <<>>
       THEN [sent |-> <<"bounded", "unbounded">>, pt |-> u.data[1],
             log |-> <<"retry", "found_outside">>, raised |-> FALSE]
       ELSE [sent |-> <<"bounded", "unbounded">>, pt |-> NoPoint,
             log |-> <<"retry">>, raised |-> FALSE]

(* lines 342-343: the point projected to EPSG:3857, in units *)
ProjectPoint(pt) == [x |-> MercatorX(pt.lon) * Scale, y |-> MercatorY(pt.lat) * Scale]

(* Mutant: the final extent of the figure taken for the test *)
CityTestBox_Final(mod, b) == RenderExtent(mod, b)

(* The box of the containment test: xmin, ymin, xmax, ymax as they stand in  *)
(* the city loop, buffered.total_bounds of line 330 (GenererCarte.py line    *)
(* 419), whichever generate_map runs.                                        *)
CityTestBox(mod, b) == b

(* Mutant: the test on the x range only *)
IsContained_XOnly(p, b) == b.xmin <= p.x /\ p.x <= b.xmax

(* line 344: is_contained *)
IsContained(p, b) ==
    /\ b.xmin <= p.x /\ p.x <= b.xmax
    /\ b.ymin <= p.y /\ p.y <= b.ymax

-----------------------------------------------------------------------------
(* set_exif_date_piexif, map_generator.py lines 106-141 (GenererCarte.py     *)
(* lines 127-149).  A date is a zone-naive hour of the time line plus a      *)
(* number of seconds.  The reference image is none (not given, or no such    *)
(* file), a JPEG with a DateTimeOriginal tag, a JPEG without one, a JPEG     *)
(* whose metadata cannot be read, or a file that is not a JPEG.              *)

NoDate == [kind |-> "none", t |-> 0, s |-> 0]

DateAt(h, sec) == [kind |-> "naive", t |-> h, s |-> sec]

NoTags == [status |-> "none", date |-> NoDate, rating |-> 0]

RefImages == {"none", "dated", "undated", "unreadable", "not_jpeg"}

(* DateTimeOriginal of the reference image, and its file creation time *)
RefDateTimeOriginal == 3

RefCreationTime == 5

ExifOffsetSeconds == 10

ExifRating == 5

(* lines 131-139: the tags are dumped and the output is saved again with *)
(* them; a failure of the dump or of the save is caught at line 140      *)
ApplyTags(date, disk_ok) ==
    IF disk_ok
    THEN [status |-> "applied", date |-> date, rating |-> ExifRating, raised |-> FALSE]
    ELSE [status |-> "error", date |-> NoDate, rating |-> 0, raised |-> FALSE]

(* Mutant: no except clause around the metadata step *)
set_exif_date_piexif_uncaught(mod, ref, start, disk_ok) ==
    IF mod = "GenererCarte" /\ ref = "none"
    THEN [status |-> "none", date |-> NoDate, rating |-> 0, raised |-> FALSE]
    ELSE IF ref = "unreadable" \/ ~disk_ok
    THEN [status |-> "error", date |-> NoDate, rating |-> 0, raised |-> TRUE]
    ELSE IF ref = "dated"
    THEN ApplyTags(DateAt(RefDateTimeOriginal, 0 - ExifOffsetSeconds), disk_ok)
    ELSE IF ref = "undated" \/ mod = "GenererCarte"
    THEN ApplyTags(DateAt(RefCreationTime, 0 - ExifOffsetSeconds), disk_ok)
    ELSE IF start.kind # "none"
    THEN ApplyTags(DateAt(start.t, 0), disk_ok)
    ELSE [status |-> "no_source", date |-> NoDate, rating |-> 0, raised |-> FALSE]

(* The outcome of the metadata step: what was logged (applied, no date      *)
(* source, error), the tags now in the output, and whether an exception     *)
(* left the function (never: line 140 catches Exception).  GenererCarte.py  *)
(* calls it only with a reference image that exists (lines 498-499) and     *)
(* knows no start_time.                                                     *)
set_exif_date_piexif(mod, ref, start, disk_ok) ==
    IF mod = "GenererCarte" /\ ref = "none"
    THEN [status |-> "none", date |-> NoDate, rating |-> 0, raised |-> FALSE]
    ELSE IF ref = "unreadable"
    THEN [status |-> "error", date |-> NoDate, rating |-> 0, raised |-> FALSE]
    ELSE IF ref = "dated"
    THEN ApplyTags(DateAt(RefDateTimeOriginal, 0 - ExifOffsetSeconds), disk_ok)
    ELSE IF ref = "undated" \/ mod = "GenererCarte"
    THEN ApplyTags(DateAt(RefCreationTime, 0 - ExifOffsetSeconds), disk_ok)
    ELSE IF start.kind # "none"
    THEN ApplyTags(DateAt(start.t, 0), disk_ok)
    ELSE [status |-> "no_source", date |-> NoDate, rating |-> 0, raised |-> FALSE]

-----------------------------------------------------------------------------
(* generate_map as a state machine *)

NoProbe == [op |-> "none"]

(* No cache protocol and no application running beside the pipeline *)
CacheIdle ==
    /\ cache_files = <<>>
    /\ invocations = <<>>
    /\ provider_calls = <<>>

AppIdle ==
    /\ actions = <<>>
    /\ threads = <<>>

Init ==
    /\ module \in Modules
    /\ gpx \in GpxFiles
    /\ \E w \in Windows : start_time = w[1] /\ end_time = w[2]
    /\ marge \in Marges
    /\ city_list \in CityLists({"Near", "Homonym"}, MaxCities)
    /\ cities_left = Len(city_list)
    /\ pc = "start"
    /\ points = <<>>
    /\ line_proj = <<>>
    /\ zoom = 0
    /\ buffer_size = NoRational
    /\ bounds = NoBox
    /\ buffered_bounds = NoBox
    /\ geocode_requests = 0
    /\ makedirs_calls = 0
    /\ tile_fetches = 0
    /\ cache_writes = 0
    /\ basemap_extent = NoBox
    /\ axis_limits = NoBox
    /\ output_written = FALSE
    /\ exif_written = FALSE
    /\ ref_image = "unread"
    /\ exif_tags = NoTags
    /\ city_points = <<>>
    /\ geocode_calls = <<>>
    /\ warnings = <<>>
    /\ probe = NoProbe
    /\ CacheIdle
    /\ AppIdle

(* Mutant: the cache directory created on entry, before the filter *)
LoadAndFilter_CacheFirst ==
    /\ pc = "start"
    /\ start_time' = StripTz(start_time)
    /\ end_time' = StripTz(end_time)
    /\ points' = FilterGpx(gpx, 1, StripTz(start_time), StripTz(end_time))
    /\ makedirs_calls' = makedirs_calls + 1
    /\ pc' = IF FilterRaises(gpx, StripTz(start_time), StripTz(end_time)) THEN "failed"
             ELSE IF TooFewPoints(points') THEN "raised" ELSE "filtered"
    /\ UNCHANGED <<module, gpx, marge, line_proj, zoom, buffer_size, bounds,
                   buffered_bounds, cities_left, geocode_requests,
                   tile_fetches, cache_writes, basemap_extent, axis_limits,
                   output_written, exif_written, exif_vars, probe, city_vars,
                   cache_vars, app_vars>>

(* lines 282-310: parse, make the window zone-naive, filter, raise ValueError *)
(* when fewer than 2 points are left.  A comparison of a zone-aware with a    *)
(* zone-naive datetime would raise TypeError out of generate_map.             *)
LoadAndFilter ==
    /\ pc = "start"
    /\ start_time' = StripTz(start_time)
    /\ end_time' = StripTz(end_time)
    /\ points' = FilterGpx(gpx, 1, StripTz(start_time), StripTz(end_time))
    /\ pc' = IF FilterRaises(gpx, StripTz(start_time), StripTz(end_time)) THEN "failed"
             ELSE IF TooFewPoints(points') THEN "raised" ELSE "filtered"
    /\ UNCHANGED <<module, gpx, marge, line_proj, zoom, buffer_size, bounds,
                   buffered_bounds, cities_left, geocode_requests, makedirs_calls,
                   tile_fetches, cache_writes, basemap_extent, axis_limits,
                   output_written, exif_written, exif_vars, probe, city_vars,
                   cache_vars, app_vars>>

(* lines 312-334: projection, zoom, margin, working box *)
PlanExtent ==
    /\ pc = "filtered"
    /\ line_proj' = ToWebMercator(points)
    /\ zoom' = ZoomForLine(line_proj')
    /\ buffer_size' = BufferSizeFor(marge, zoom')
    /\ buffered_bounds' = BufferTotalBounds(line_proj', buffer_size')
    /\ bounds' = buffered_bounds'
    /\ pc' = "planned"
    /\ UNCHANGED <<module, gpx, start_time, end_time, marge, points, cities_left,
                   geocode_requests, makedirs_calls, tile_fetches, cache_writes,
                   basemap_extent, axis_limits, output_written, exif_written, exif_vars, probe, city_vars,
                   cache_vars, app_vars>>

(* lines 337-350: one turn of the city loop.  geocode_city is called for the *)
(* next city; a point returned is projected and kept in city_points when the *)
(* box contains it, otherwise the city is logged as ignored.                 *)
GeocodeCity ==
    /\ pc = "planned"
    /\ cities_left > 0
    /\ LET ville == city_list[Len(city_list) - cities_left + 1]
           r == geocode_city(ville)
       IN /\ geocode_requests' = geocode_requests + Len(r.sent)
          /\ geocode_calls' = Append(geocode_calls,
                                     [ville |-> ville, sent |-> r.sent, pt |-> r.pt,
                                      log |-> r.log])
          /\ IF r.raised
             THEN /\ pc' = "failed"
                  /\ UNCHANGED <<cities_left, city_points, warnings>>
             ELSE /\ pc' = pc
                  /\ cities_left' = cities_left - 1
                  /\ IF ~r.pt.some
                     THEN UNCHANGED <<city_points, warnings>>
                     ELSE IF IsContained(ProjectPoint(r.pt), CityTestBox(module, bounds))
                     THEN /\ city_points' = Append(city_points, [nom |-> ville, pt |-> r.pt])
                          /\ UNCHANGED warnings
                     ELSE /\ warnings' = Append(warnings, ville)
                          /\ UNCHANGED city_points
    /\ UNCHANGED <<module, gpx, start_time, end_time, marge, points, line_proj,
                   zoom, buffer_size, bounds, buffered_bounds, makedirs_calls,
                   tile_fetches, cache_writes, basemap_extent, axis_limits,
                   output_written, exif_written, exif_vars, probe, city_list,
                   cache_vars, app_vars>>

(* line 352 (GenererCarte.py lines 445-448): the extent of the figure *)
StartRender ==
    /\ pc = "planned"
    /\ cities_left = 0
    /\ bounds' = RenderExtent(module, buffered_bounds)
    /\ pc' = "rendering"
    /\ UNCHANGED <<module, gpx, start_time, end_time, marge, points, line_proj, zoom,
                   buffer_size, buffered_bounds, cities_left, geocode_requests,
                   makedirs_calls, tile_fetches, cache_writes, basemap_extent,
                   axis_limits, output_written, exif_written, exif_vars, probe, city_vars,
                   cache_vars, app_vars>>

(* line 371 and get_or_download_basemap, lines 149-167: the cache directory is *)
(* created, then the basemap is loaded from the cache or fetched and stored.   *)
(* Nothing catches an exception of the tile provider (line 163) or of the      *)
(* cache files (lines 157-158, 165-167): it leaves generate_map.               *)
Basemap ==
    /\ pc = "rendering"
    /\ makedirs_calls' = makedirs_calls + 1
    /\ basemap_extent' = bounds
    /\ \E outcome \in {"hit", "miss", "provider_error", "storage_error",
                        "cache_unreadable"} :
         CASE outcome = "hit" ->
                /\ UNCHANGED <<tile_fetches, cache_writes>>
                /\ pc' = "basemap"
           [] outcome = "miss" ->
                /\ tile_fetches' = tile_fetches + 1
                /\ cache_writes' = cache_writes + 2
                /\ pc' = "basemap"
           [] outcome = "provider_error" ->
                /\ tile_fetches' = tile_fetches + 1
                /\ UNCHANGED cache_writes
                /\ pc' = "failed"
           [] outcome = "storage_error" ->
                /\ tile_fetches' = tile_fetches + 1
                /\ cache_writes' = cache_writes + 1
                /\ pc' = "failed"
           [] outcome = "cache_unreadable" ->
                /\ UNCHANGED <<tile_fetches, cache_writes>>
                /\ pc' = "failed"
    /\ UNCHANGED <<module, gpx, start_time, end_time, marge, points, line_proj, zoom,
                   buffer_size, bounds, buffered_bounds, cities_left, geocode_requests,
                   axis_limits, output_written, exif_written, exif_vars, probe, city_vars,
                   cache_vars, app_vars>>

(* lines 383-393: axis limits, rasterization, the output JPEG *)
SaveOutput ==
    /\ pc = "basemap"
    /\ axis_limits' = bounds
    /\ output_written' = TRUE
    /\ pc' = "saved"
    /\ UNCHANGED <<module, gpx, start_time, end_time, marge, points, line_proj, zoom,
                   buffer_size, bounds, buffered_bounds, cities_left, geocode_requests,
                   makedirs_calls, tile_fetches, cache_writes, basemap_extent,
                   exif_written, exif_vars, probe, city_vars,
                   cache_vars, app_vars>>

(* Mutant: the metadata written before the output file *)
WriteExif_BeforeSave ==
    /\ pc = "basemap"
    /\ ~exif_written
    /\ exif_written' = TRUE
    /\ ref_image' = "dated"
    /\ exif_tags' = [status |-> "applied",
                     date |-> DateAt(RefDateTimeOriginal, 0 - ExifOffsetSeconds),
                     rating |-> ExifRating]
    /\ UNCHANGED <<module, gpx, start_time, end_time, marge, pc, points, line_proj, zoom,
                   buffer_size, bounds, buffered_bounds, cities_left, geocode_requests,
                   makedirs_calls, tile_fetches, cache_writes, basemap_extent,
                   axis_limits, output_written, probe, city_vars,
                   cache_vars, app_vars>>

(* line 396 and set_exif_date_piexif, lines 106-141 (GenererCarte.py lines    *)
(* 498-499: only with a reference image).  The reference image is whatever    *)
(* the caller gave; the dump and the save of the tags work or fail.           *)
WriteExif ==
    /\ pc = "saved"
    /\ \E ref \in RefImages, disk_ok \in BOOLEAN :
         LET r == set_exif_date_piexif(module, ref, start_time, disk_ok)
         IN /\ ref_image' = ref
            /\ exif_tags' = [status |-> r.status, date |-> r.date, rating |-> r.rating]
            /\ exif_written' = (r.status = "applied")
            /\ pc' = IF r.raised THEN "failed" ELSE "done"
    /\ UNCHANGED <<module, gpx, start_time, end_time, marge, points, line_proj, zoom,
                   buffer_size, bounds, buffered_bounds, cities_left, geocode_requests,
                   makedirs_calls, tile_fetches, cache_writes, basemap_extent,
                   axis_limits, output_written, probe, city_vars,
                   cache_vars, app_vars>>

Next ==
    \/ LoadAndFilter
    \/ PlanExtent
    \/ GeocodeCity
    \/ StartRender
    \/ Basemap
    \/ SaveOutput
    \/ WriteExif

Spec == Init /\ [][Next]_vars

(* generate_map on two fixed tracks, a tall one (PosB to PosD) and a wide one *)
(* (PosC to PosD), without a time window, for every list of at most            *)
(* MaxCities + 1 place names of the gazetteer.                                 *)
CityTracks ==
    { BuildGpx(<<GpxPoint(PosB, Aware(0)), GpxPoint(PosD, Aware(2))>>, "segment", 2),
      BuildGpx(<<GpxPoint(PosC, Naive(2)), GpxPoint(PosD, Aware(2))>>, "segment", 2) }

InitCities ==
    /\ module \in Modules
    /\ gpx \in CityTracks
    /\ start_time = NoTime
    /\ end_time = NoTime
    /\ marge \in Marges
    /\ city_list \in CityLists(CityNames, MaxCities + 1)
    /\ cities_left = Len(city_list)
    /\ pc = "start"
    /\ points = <<>>
    /\ line_proj = <<>>
    /\ zoom = 0
    /\ buffer_size = NoRational
    /\ bounds = NoBox
    /\ buffered_bounds = NoBox
    /\ geocode_requests = 0
    /\ makedirs_calls = 0
    /\ tile_fetches = 0
    /\ cache_writes = 0
    /\ basemap_extent = NoBox
    /\ axis_limits = NoBox
    /\ output_written = FALSE
    /\ exif_written = FALSE
    /\ ref_image = "unread"
    /\ exif_tags = NoTags
    /\ city_points = <<>>
    /\ geocode_calls = <<>>
    /\ warnings = <<>>
    /\ probe = NoProbe
    /\ CacheIdle
    /\ AppIdle

SpecCities == InitCities /\ [][Next]_vars

-----------------------------------------------------------------------------
(* Stand-alone calls of the extent planner's pure functions.  generate_map  *)
(* is not running (pc = "idle"); probe holds the arguments and the results. *)

PipelineIdle ==
    /\ module = "map_generator"
    /\ gpx = <<>>
    /\ start_time = NoTime
    /\ end_time = NoTime
    /\ marge = NoMarge
    /\ city_list = <<>>
    /\ cities_left = 0
    /\ pc = "idle"
    /\ points = <<>>
    /\ line_proj = <<>>
    /\ zoom = 0
    /\ buffer_size = NoRational
    /\ bounds = NoBox
    /\ buffered_bounds = NoBox
    /\ geocode_requests = 0
    /\ makedirs_calls = 0
    /\ tile_fetches = 0
    /\ cache_writes = 0
    /\ basemap_extent = NoBox
    /\ axis_limits = NoBox
    /\ output_written = FALSE
    /\ exif_written = FALSE
    /\ ref_image = "unread"
    /\ exif_tags = NoTags
    /\ city_points = <<>>
    /\ geocode_calls = <<>>
    /\ warnings = <<>>

pipeline_vars ==
    <<module, gpx, start_time, end_time, marge, pc, points, line_proj, zoom,
      buffer_size, bounds, buffered_bounds, cities_left, geocode_requests,
      makedirs_calls, tile_fetches, cache_writes, basemap_extent, axis_limits,
      output_written, exif_written, exif_vars, city_vars>>

Width(b) == b.xmax - b.xmin

Height(b) == b.ymax - b.ymin

(* Extent lengths in metres: the zoom thresholds of the 2700 px canvas height, *)
(* and two extremes.                                                           *)
ExtentLengths == {Zoom0Span(HeightPx) \div Pow2(k) : k \in 0..19} \cup {1, 1000000000}

Resized(len, how) ==
    CASE how = "half" -> (len + 1) \div 2
      [] how = "same" -> len
      [] how = "double" -> 2 * len

(* Two extents a and b (metres), b being a resized along each axis, and an *)
(* optional margin override.                                               *)
InitZoom ==
    /\ PipelineIdle
    /\ CacheIdle
    /\ AppIdle
    /\ \E w \in ExtentLengths, h \in ExtentLengths,
          rx \in {"half", "same", "double"}, ry \in {"half", "same", "double"},
          m \in Marges :
         probe = [op |-> "plan", stage |-> "args",
                  a |-> Box(0 - 700, 300, w - 700, 300 + h),
                  b |-> Box(0 - 700, 300, Resized(w, rx) - 700, 300 + Resized(h, ry)),
                  marge |-> m, za |-> 0, zb |-> 0,
                  ma |-> NoRational, mb |-> NoRational]

(* generate_map line 319 on each extent *)
ProbeZoom ==
    /\ probe.op = "plan"
    /\ probe.stage = "args"
    /\ probe' = [probe EXCEPT
         !.stage = "zoomed",
         !.za = calculate_zoom_for_extent(probe.a.xmin, probe.a.ymin, probe.a.xmax,
                                          probe.a.ymax, WidthPx, HeightPx),
         !.zb = calculate_zoom_for_extent(probe.b.xmin, probe.b.ymin, probe.b.xmax,
                                          probe.b.ymax, WidthPx, HeightPx)]
    /\ UNCHANGED <<pipeline_vars, cache_vars, app_vars>>

(* generate_map lines 322-327 for each zoom *)
ProbeMargin ==
    /\ probe.op = "plan"
    /\ probe.stage = "zoomed"
    /\ probe' = [probe EXCEPT
         !.stage = "done",
         !.ma = BufferSizeFor(probe.marge, probe.za),
         !.mb = BufferSizeFor(probe.marge, probe.zb)]
    /\ UNCHANGED <<pipeline_vars, cache_vars, app_vars>>

NextZoom ==
    \/ ProbeZoom
    \/ ProbeMargin

SpecZoom == InitZoom /\ [][NextZoom]_vars

(* Boxes in units whose bounds are multiples of 1/8 m (24 units) *)
RatioOrigins == {0 - 48, 0, 24}

RatioLengths == {24, 72, 96, 240}

InitRatio ==
    /\ PipelineIdle
    /\ CacheIdle
    /\ AppIdle
    /\ \E x \in RatioOrigins, y \in RatioOrigins, w \in RatioLengths, h \in RatioLengths :
         probe = [op |-> "ratio", stage |-> "args",
                  a |-> Box(x, y, x + w, y + h), r |-> NoBox]

(* GenererCarte.py line 448 *)
ProbeAdjust ==
    /\ probe.op = "ratio"
    /\ probe.stage = "args"
    /\ probe' = [probe EXCEPT
         !.stage = "done",
         !.r = adjust_bounds_to_ratio(probe.a.xmin, probe.a.ymin,
                                      probe.a.xmax, probe.a.ymax)]
    /\ UNCHANGED <<pipeline_vars, cache_vars, app_vars>>

NextRatio == ProbeAdjust

SpecRatio == InitRatio /\ [][NextRatio]_vars

-----------------------------------------------------------------------------
(* get_or_download_basemap, map_generator.py lines 149-167, step by step, for *)
(* invocations that share CACHE_DIR.  A file is absent, partial (created or   *)
(* truncated by open, not yet completely written) or complete; v tells which  *)
(* fetch of the provider its content comes from.  generate_map is not running *)
(* (pc = "idle").                                                             *)

Keys == {"k1", "k2"}

Invocations == {1, 2}

(* The answers of the tile provider: its tiles may change between two fetches *)
TileVersions == {1, 2}

Absent == [state |-> "absent", v |-> 0]

Partial(v) == [state |-> "partial", v |-> v]

Complete(v) == [state |-> "complete", v |-> v]

NoEntry == [png |-> Absent, pkl |-> Absent]

NoCall ==
    [pc |-> "idle", key |-> "", hit |-> FALSE, fetches |-> 0, fetched |-> 0,
     img |-> 0, extent |-> 0, error |-> "none", calls |-> 0]

Quiet(p) == invocations[p].pc \in {"idle", "done", "raised"}

OthersQuiet(p) == \A q \in Invocations \ {p} : Quiet(q)

InitCache ==
    /\ PipelineIdle
    /\ AppIdle
    /\ probe = NoProbe
    /\ cache_files = [k \in Keys |-> NoEntry]
    /\ invocations = [p \in Invocations |-> NoCall]
    /\ provider_calls = [k \in Keys |-> 0]

CacheStep == UNCHANGED <<pipeline_vars, probe, app_vars>>

(* lines 150-153: a call begins; the directory is made sure of, the key and *)
(* the two paths are computed                                               *)
Begin(p, k) ==
    /\ Quiet(p)
    /\ invocations[p].calls < MaxCalls
    /\ invocations' = [invocations EXCEPT ![p] =
         [NoCall EXCEPT !.pc = "check", !.key = k, !.calls = invocations[p].calls + 1]]
    /\ UNCHANGED <<cache_files, provider_calls>>
    /\ CacheStep

(* A call that begins when no other call is under way *)
BeginAlone(p, k) == OthersQuiet(p) /\ Begin(p, k)

(* Mutant: one of the two files is enough for a hit *)
IsHit_Either(entry) == entry.png.state # "absent" \/ entry.pkl.state # "absent"

(* Mutant: the cache never trusted *)
IsHit_Never(entry) == FALSE

(* line 155: os.path.exists(img_path) and os.path.exists(bounds_path) *)
IsHit(entry) == entry.png.state # "absent" /\ entry.pkl.state # "absent"

Check(p) ==
    /\ invocations[p].pc = "check"
    /\ invocations' = [invocations EXCEPT
         ![p].hit = IsHit(cache_files[invocations[p].key]),
         ![p].pc = IF IsHit(cache_files[invocations[p].key])
                   THEN "load_bounds" ELSE "fetch"]
    /\ UNCHANGED <<cache_files, provider_calls>>
    /\ CacheStep

(* lines 157-158: pickle.load of the bounds record; a record that is missing *)
(* or not completely written raises                                          *)
LoadBounds(p) ==
    /\ invocations[p].pc = "load_bounds"
    /\ LET f == cache_files[invocations[p].key].pkl
       IN invocations' = [invocations EXCEPT
            ![p].extent = IF f.state = "complete" THEN f.v ELSE 0,
            ![p].error = IF f.state = "complete" THEN "none" ELSE "unreadable",
            ![p].pc = IF f.state = "complete" THEN "load_img" ELSE "raised"]
    /\ UNCHANGED <<cache_files, provider_calls>>
    /\ CacheStep

(* lines 159-160: Image.open and imshow of the raster; a raster that is *)
(* missing or not completely written raises                             *)
LoadImg(p) ==
    /\ invocations[p].pc = "load_img"
    /\ LET f == cache_files[invocations[p].key].png
       IN invocations' = [invocations EXCEPT
            ![p].img = IF f.state = "complete" THEN f.v ELSE 0,
            ![p].error = IF f.state = "complete" THEN "none" ELSE "unreadable",
            ![p].pc = IF f.state = "complete" THEN "done" ELSE "raised"]
    /\ UNCHANGED <<cache_files, provider_calls>>
    /\ CacheStep

(* lines 163-164: ctx.bounds2img answers; the image is shown with its extent *)
Fetch(p) ==
    /\ invocations[p].pc = "fetch"
    /\ \E v \in TileVersions :
         invocations' = [invocations EXCEPT
            ![p].fetches = invocations[p].fetches + 1,
            ![p].fetched = v, ![p].img = v, ![p].extent = v,
            ![p].pc = "save_img"]
    /\ provider_calls' = [provider_calls EXCEPT
         ![invocations[p].key] = provider_calls[invocations[p].key] + 1]
    /\ UNCHANGED cache_files
    /\ CacheStep

(* line 163: ctx.bounds2img raises (network, HTTP error) *)
FetchFails(p) ==
    /\ invocations[p].pc = "fetch"
    /\ invocations' = [invocations EXCEPT
         ![p].fetches = invocations[p].fetches + 1,
         ![p].error = "provider",
         ![p].pc = "raised"]
    /\ provider_calls' = [provider_calls EXCEPT
         ![invocations[p].key] = provider_calls[invocations[p].key] + 1]
    /\ UNCHANGED cache_files
    /\ CacheStep

(* line 165, first half: save opens img_path for writing; the file exists, *)
(* emptied                                                                 *)
SaveImgOpen(p) ==
    /\ invocations[p].pc = "save_img"
    /\ cache_files' = [cache_files EXCEPT
         ![invocations[p].key].png = Partial(invocations[p].fetched)]
    /\ invocations' = [invocations EXCEPT ![p].pc = "write_img"]
    /\ UNCHANGED provider_calls
    /\ CacheStep

(* line 165, second half: the raster is written out and the file closed *)
SaveImgWrite(p) ==
    /\ invocations[p].pc = "write_img"
    /\ cache_files' = [cache_files EXCEPT
         ![invocations[p].key].png = Complete(invocations[p].fetched)]
    /\ invocations' = [invocations EXCEPT ![p].pc = "save_bounds"]
    /\ UNCHANGED provider_calls
    /\ CacheStep

(* line 166: open(bounds_path, "wb"); the file exists, emptied *)
SaveBoundsOpen(p) ==
    /\ invocations[p].pc = "save_bounds"
    /\ cache_files' = [cache_files EXCEPT
         ![invocations[p].key].pkl = Partial(invocations[p].fetched)]
    /\ invocations' = [invocations EXCEPT ![p].pc = "write_bounds"]
    /\ UNCHANGED provider_calls
    /\ CacheStep

(* line 167: pickle.dump and the close of the with block *)
SaveBoundsWrite(p) ==
    /\ invocations[p].pc = "write_bounds"
    /\ cache_files' = [cache_files EXCEPT
         ![invocations[p].key].pkl = Complete(invocations[p].fetched)]
    /\ invocations' = [invocations EXCEPT ![p].pc = "done"]
    /\ UNCHANGED provider_calls
    /\ CacheStep

(* lines 165-167: a write fails (disk full, I/O error); the file being *)
(* written stays as it is                                              *)
WriteFails(p) ==
    /\ invocations[p].pc \in {"write_img", "write_bounds"}
    /\ invocations' = [invocations EXCEPT ![p].error = "storage", ![p].pc = "raised"]
    /\ UNCHANGED <<cache_files, provider_calls>>
    /\ CacheStep

(* Calls made one after the other; the provider and the disk may fail *)
NextCacheSeq ==
    \/ \E p \in Invocations, k \in Keys : BeginAlone(p, k)
    \/ \E p \in Invocations : Check(p)
    \/ \E p \in Invocations : LoadBounds(p)
    \/ \E p \in Invocations : LoadImg(p)
    \/ \E p \in Invocations : Fetch(p)
    \/ \E p \in Invocations : FetchFails(p)
    \/ \E p \in Invocations : SaveImgOpen(p)
    \/ \E p \in Invocations : SaveImgWrite(p)
    \/ \E p \in Invocations : SaveBoundsOpen(p)
    \/ \E p \in Invocations : SaveBoundsWrite(p)
    \/ \E p \in Invocations : WriteFails(p)

SpecCacheSeq == InitCache /\ [][NextCacheSeq]_vars

(* Calls that run side by side, as worker threads of one process or as *)
(* several processes do; the provider and the disk never fail          *)
NextCache ==
    \/ \E p \in Invocations, k \in Keys : Begin(p, k)
    \/ \E p \in Invocations : Check(p)
    \/ \E p \in Invocations : LoadBounds(p)
    \/ \E p \in Invocations : LoadImg(p)
    \/ \E p \in Invocations : Fetch(p)
    \/ \E p \in Invocations : SaveImgOpen(p)
    \/ \E p \in Invocations : SaveImgWrite(p)
    \/ \E p \in Invocations : SaveBoundsOpen(p)
    \/ \E p \in Invocations : SaveBoundsWrite(p)

SpecCache == InitCache /\ [][NextCache]_vars

-----------------------------------------------------------------------------
(* get_cache_key, map_generator.py lines 144-146.  A coordinate is an integer *)
(* number of tenths of a millionth (1e-7).  "{:.6f}" writes a minus sign for  *)
(* every negative number, also when its digits round to 0.000000, and rounds  *)
(* the digits to the millionth, a tie going to the even digit.  The MD5       *)
(* digest is taken as collision-free: a key is the text that is hashed.       *)

RoundHalfEven(n, d) ==
    LET q == n \div d
        r == n % d
    IN IF 2 * r > d \/ (2 * r = d /\ q % 2 = 1) THEN q + 1 ELSE q

Format6(x) ==
    [minus |-> x < 0, millionths |-> RoundHalfEven(IF x < 0 THEN 0 - x ELSE x, 10)]

get_cache_key(xmin, ymin, xmax, ymax, z) ==
    <<Format6(xmin), Format6(ymin), Format6(xmax), Format6(ymax), z>>

KeyCoords == {0 - 1, 0, 5, 6}

KeyZooms == {12, 13}

KeyArgs == [xmin : KeyCoords, ymin : KeyCoords, xmax : KeyCoords, ymax : KeyCoords,
            zoom : KeyZooms]

(* Two argument lists, the second differing from the first in at most one *)
(* argument                                                               *)
InitKey ==
    /\ PipelineIdle
    /\ CacheIdle
    /\ AppIdle
    /\ \E a \in KeyArgs, c \in KeyCoords, z \in KeyZooms,
          f \in {"xmin", "ymin", "xmax", "ymax", "zoom"} :
         probe = [op |-> "key", stage |-> "args", a |-> a,
                  b |-> CASE f = "xmin" -> [a EXCEPT !.xmin = c]
                          [] f = "ymin" -> [a EXCEPT !.ymin = c]
                          [] f = "xmax" -> [a EXCEPT !.xmax = c]
                          [] f = "ymax" -> [a EXCEPT !.ymax = c]
                          [] f = "zoom" -> [a EXCEPT !.zoom = z],
                  ka |-> <<>>, kb |-> <<>>]

(* line 152 on each argument list *)
ProbeKey ==
    /\ probe.op = "key"
    /\ probe.stage = "args"
    /\ probe' = [probe EXCEPT
         !.stage = "done",
         !.ka = get_cache_key(probe.a.xmin, probe.a.ymin, probe.a.xmax, probe.a.ymax,
                              probe.a.zoom),
         !.kb = get_cache_key(probe.b.xmin, probe.b.ymin, probe.b.xmax, probe.b.ymax,
                              probe.b.zoom)]
    /\ UNCHANGED <<pipeline_vars, cache_vars, app_vars>>

NextKey == ProbeKey

SpecKey == InitKey /\ [][NextKey]_vars

-----------------------------------------------------------------------------
(* The desktop application, src/app.py: the list of action configurations   *)
(* (maps only), the check boxes, the Generate button and the worker threads *)
(* it starts.  generate_map itself is not stepped here (pc = "idle"); a     *)
(* thread is before, inside or after its generate_map call.                 *)

AppActions == {1, 2}

(* The values the form of an action can hold; 0 in a thread: not yet read *)
AppParams == {1, 2}

InitApp ==
    /\ PipelineIdle
    /\ CacheIdle
    /\ probe = NoProbe
    /\ actions \in [AppActions -> [checked : BOOLEAN, dirty : BOOLEAN, gpx_file : BOOLEAN,
                                   params : {1}]]
    /\ threads = <<>>

AppStep == UNCHANGED <<pipeline_vars, probe, cache_vars>>

(* _on_tree_click, lines 715-735: a click on the check box of a row *)
on_tree_click(i) ==
    /\ actions' = [actions EXCEPT ![i].checked = ~actions[i].checked]
    /\ UNCHANGED threads
    /\ AppStep

(* _save_current_action, lines 1119-1171, for the current action i and the *)
(* values of the form: the parameters are replaced; when they differ from  *)
(* the old ones the action becomes dirty, and checked if it was not dirty  *)
Saved(acts, i, form) ==
    IF acts[i].params = form THEN acts
    ELSE [acts EXCEPT ![i].params = form,
                      ![i].dirty = TRUE,
                      ![i].checked = IF acts[i].dirty THEN acts[i].checked ELSE TRUE]

(* The user edits the form of action i and leaves it (selection of another *)
(* row, save of the file): _save_current_action                            *)
save_current_action(i, form) ==
    /\ actions[i].params # form
    /\ actions' = Saved(actions, i, form)
    /\ UNCHANGED threads
    /\ AppStep

RECURSIVE StartThreads(_, _, _)
(* lines 1324-1325 with _generate_carte, lines 1340-1351: for each checked  *)
(* action in list order, a thread is started when the action has a GPX file *)
StartThreads(acts, i, started) ==
    IF i \notin AppActions THEN started
    ELSE StartThreads(acts, i + 1,
                      IF acts[i].checked /\ acts[i].gpx_file
                      THEN Append(started, [action |-> i, at |-> "started", params |-> 0])
                      ELSE started)

(* _generate_images, lines 1305-1328: the Generate button.  The form of the *)
(* current action (cur = 0: no current action) is saved first; the threads  *)
(* are started and not joined; the handler returns to the event loop.       *)
generate_images ==
    \E cur \in AppActions \cup {0}, form \in AppParams :
        LET acts == IF cur = 0 THEN actions ELSE Saved(actions, cur, form)
        IN /\ \E i \in AppActions : acts[i].checked
           /\ Len(StartThreads(acts, 1, threads)) <= MaxThreads
           /\ threads' = StartThreads(acts, 1, threads)
           /\ actions' = acts
           /\ AppStep

(* _generate_carte_thread, lines 1353-1426: the parameters of the action   *)
(* are read (line 1358), the working directory is changed, generate_map is *)
(* called with them                                                        *)
EnterGenerateMap(t) ==
    /\ threads[t].at = "started"
    /\ threads' = [threads EXCEPT ![t].at = "generate_map",
                                  ![t].params = actions[threads[t].action].params]
    /\ UNCHANGED actions
    /\ AppStep

(* lines 1428-1434: generate_map has returned; the action is marked clean *)
(* and unchecked                                                          *)
ReturnFromGenerateMap(t) ==
    /\ threads[t].at = "generate_map"
    /\ threads' = [threads EXCEPT ![t].at = "finished"]
    /\ actions' = [actions EXCEPT ![threads[t].action].dirty = FALSE,
                                  ![threads[t].action].checked = FALSE]
    /\ AppStep

(* lines 1436-1437: generate_map has raised; the error is logged *)
RaiseFromGenerateMap(t) ==
    /\ threads[t].at = "generate_map"
    /\ threads' = [threads EXCEPT ![t].at = "failed"]
    /\ UNCHANGED actions
    /\ AppStep

NextApp ==
    \/ \E i \in AppActions : on_tree_click(i)
    \/ \E i \in AppActions, form \in AppParams : save_current_action(i, form)
    \/ generate_images
    \/ \E t \in 1..Len(threads) : EnterGenerateMap(t)
    \/ \E t \in 1..Len(threads) : ReturnFromGenerateMap(t)
    \/ \E t \in 1..Len(threads) : RaiseFromGenerateMap(t)

SpecApp == InitApp /\ [][NextApp]_vars

-----------------------------------------------------------------------------
(* Properties *)

RECURSIVE Flatten(_)
Flatten(ss) == IF ss = <<>> THEN <<>> ELSE Head(ss) \o Flatten(Tail(ss))

(* The points of the file in file order: tracks, then segments, then points *)
TrackPoints == Flatten(Flatten(gpx))

LonLat(p) == [lon |-> p.longitude, lat |-> p.latitude]

HasWindow == start_time.kind # "none" /\ end_time.kind # "none"

(* The normalized timestamp of p lies in [start, end], both inclusive *)
InWindow(p) ==
    /\ p.time.kind # "none"
    /\ StripTz(start_time).t <= NormalizePointTime(p.time).t
    /\ NormalizePointTime(p.time).t <= StripTz(end_time).t

(* A point passes the time filter: it carries a timestamp and, when both *)
(* bounds are given, the timestamp lies in the window                    *)
Survives(p) == p.time.kind # "none" /\ (HasWindow => InWindow(p))

SurvivingCount == Cardinality({i \in 1..Len(TrackPoints) : Survives(TrackPoints[i])})

Filtered == pc \notin {"idle", "start"}

NoEffect ==
    /\ geocode_requests = 0
    /\ makedirs_calls = 0
    /\ tile_fetches = 0
    /\ cache_writes = 0
    /\ basemap_extent = NoBox
    /\ axis_limits = NoBox
    /\ ~output_written
    /\ ~exif_written

(* C1: once the filter has run, generate_map has raised the insufficient-data *)
(* error exactly when fewer than 2 points of the file pass the time filter;   *)
(* with 2 or more it has not raised and goes on.                              *)
C1_RaiseIffTooFew ==
    Filtered => ((pc = "raised") <=> (SurvivingCount < 2))

C1_Witness ==
    /\ pc = "raised"
    /\ SurvivingCount = 1
    /\ Len(TrackPoints) >= 2

(* C2: when generate_map has raised the insufficient-data error, nothing else *)
(* has happened: no geocoding request, no tile fetch, no cache directory      *)
(* creation or write, no output image, no metadata; and any such effect is    *)
(* only ever seen in a run where at least 2 points passed the filter.         *)
C2_RaisedBeforeAnyEffect ==
    /\ pc = "raised" => NoEffect
    /\ ~NoEffect => (pc # "raised" /\ SurvivingCount >= 2)

C2_Witness ==
    /\ pc = "raised"
    /\ HasWindow
    /\ Len(TrackPoints) >= 2
    /\ SurvivingCount = 0
    /\ \E i \in 1..Len(TrackPoints) : TrackPoints[i].time.kind # "none"

InWindowLonLat == 
    LET kept == SelectSeq(TrackPoints, InWindow)
    IN [i \in 1..Len(kept) |-> LonLat(kept[i])]

(* C3: with both window bounds given, the list built by the filter is exactly *)
(* the points of the file, in file order, whose normalized timestamp t has    *)
(* start <= t <= end.                                                         *)
C3_WindowFilterExact ==
    (Filtered /\ HasWindow) => points = InWindowLonLat

C3_Witness ==
    /\ pc = "filtered"
    /\ HasWindow
    /\ Len(points) = 2
    /\ Len(TrackPoints) = 3
    /\ \E i \in 1..3 : /\ TrackPoints[i].time.kind # "none"
                       /\ NormalizePointTime(TrackPoints[i].time).t > end_time.t
    /\ \E i \in 1..3 : /\ TrackPoints[i].time.kind # "none"
                       /\ NormalizePointTime(TrackPoints[i].time).t = end_time.t

AllLonLat == [i \in 1..Len(TrackPoints) |-> LonLat(TrackPoints[i])]

(* C4 (as claimed): with no window (start and end both None) the filter keeps *)
(* every point of the file, in order, with or without a timestamp, and a file *)
(* of 2 or more points is rendered.                                           *)
C4_NoWindowKeepsAll ==
    (Filtered /\ start_time.kind = "none" /\ end_time.kind = "none")
        => (points = AllLonLat /\ (Len(TrackPoints) >= 2 => pc # "raised"))

RatioIs43(b) == Width(b) * TargetRatioDen = Height(b) * TargetRatioNum

Contains(outer, inner) ==
    /\ outer.xmin <= inner.xmin
    /\ outer.ymin <= inner.ymin
    /\ outer.xmax >= inner.xmax
    /\ outer.ymax >= inner.ymax

(* C5 (as claimed): in every run that reaches rendering, the extent passed to *)
(* the tile cache and set as the axis limits has a width:height ratio of 4:3  *)
(* and contains the margin-buffered bounding box of the track.                *)
C5_FinalExtentIs43 ==
    /\ pc \in {"basemap", "saved", "done"} =>
          (RatioIs43(basemap_extent) /\ Contains(basemap_extent, buffered_bounds))
    /\ pc \in {"saved", "done"} =>
          (RatioIs43(axis_limits) /\ Contains(axis_limits, buffered_bounds))

ProbeRatioDone == probe.op = "ratio" /\ probe.stage = "done"

(* C6: for every box of positive width and height, adjust_bounds_to_ratio    *)
(* returns a box of ratio 4:3 with the same center that contains the input;  *)
(* exactly one dimension grows, or none when the ratio is already 4:3.       *)
C6_AdjustRatio ==
    ProbeRatioDone =>
        LET a == probe.a
            r == probe.r
        IN /\ RatioIs43(r)
           /\ r.xmin + r.xmax = a.xmin + a.xmax
           /\ r.ymin + r.ymax = a.ymin + a.ymax
           /\ Contains(r, a)
           /\ RatioIs43(a) => r = a
           /\ ~RatioIs43(a) =>
                 \/ (Width(r) > Width(a) /\ Height(r) = Height(a))
                 \/ (Height(r) > Height(a) /\ Width(r) = Width(a))

C6_Witness ==
    /\ ProbeRatioDone
    /\ Width(probe.a) * TargetRatioDen > Height(probe.a) * TargetRatioNum
    /\ probe.r.ymax > probe.a.ymax
    /\ probe.r.ymin < probe.a.ymin
    /\ probe.r.xmin = probe.a.xmin

ProbeZoomed == probe.op = "plan" /\ probe.stage \in {"zoomed", "done"}

(* C7: calculate_zoom_for_extent returns an integer in 0..18 for every extent *)
(* of positive width and height, however small or large.                      *)
C7_ZoomInRange ==
    ProbeZoomed => (probe.za \in MinZoom..MaxZoom /\ probe.zb \in MinZoom..MaxZoom)

C7_Witness ==
    /\ ProbeZoomed
    /\ Width(probe.a) = 1
    /\ Height(probe.a) = 1
    /\ probe.za = MaxZoom
    /\ Width(probe.b) = 2
    /\ probe.zb = MaxZoom

(* C8: for the fixed canvas, if extent b is at least as wide and at least as *)
(* tall as extent a, then zoom(b) <= zoom(a).                                *)
C8_ZoomMonotone ==
    (ProbeZoomed /\ Width(probe.b) >= Width(probe.a) /\ Height(probe.b) >= Height(probe.a))
        => probe.zb <= probe.za

C8_Witness ==
    /\ ProbeZoomed
    /\ Width(probe.b) = Width(probe.a)
    /\ Height(probe.b) > Height(probe.a)
    /\ probe.zb < probe.za

Planned == pc \in {"planned", "rendering", "basemap", "saved", "done"}

LineXs == [i \in 1..Len(line_proj) |-> line_proj[i].x]

LineYs == [i \in 1..Len(line_proj) |-> line_proj[i].y]

(* Width and height (metres) of the bounding box of the track buffered by the *)
(* provisional 1000 m                                                         *)
TempLonExtent ==
    SeqMax(LineXs, Len(line_proj)) - SeqMin(LineXs, Len(line_proj)) + 2 * TempBuffer

TempLatExtent ==
    SeqMax(LineYs, Len(line_proj)) - SeqMin(LineYs, Len(line_proj)) + 2 * TempBuffer

(* z = floor(min(log2(nlon / lon), log2(nlat / lat))) clamped to 0..18: z is *)
(* in range, 2^z is at most both quotients unless z is the lower clamp, and  *)
(* 2^(z+1) exceeds one of them unless z is the upper clamp.                  *)
IsClampedFloorMinLog2(z, nlon, lon, nlat, lat) ==
    /\ z \in MinZoom..MaxZoom
    /\ z > MinZoom => (nlon \div Pow2(z) >= lon /\ nlat \div Pow2(z) >= lat)
    /\ z < MaxZoom => ~(nlon \div Pow2(z + 1) >= lon /\ nlat \div Pow2(z + 1) >= lat)

(* C9 (amended): the zoom used by generate_map is floor(min(log2(156543.03 *  *)
(* 3600 / lon_extent), log2(156543.03 * 2700 / lat_extent))) clamped to       *)
(* [0, 18]: the latitude term uses height_px = 2700; the extents are those of *)
(* the track's bounding box buffered by 1000 m.                               *)
C9_ZoomFormula ==
    Planned => IsClampedFloorMinLog2(zoom, Zoom0Span(WidthPx), TempLonExtent,
                                     Zoom0Span(HeightPx), TempLatExtent)

(* C9 (as claimed): width_px = 3600 in both the longitude and latitude terms *)
C9_ZoomFormulaWidthOnly ==
    Planned => IsClampedFloorMinLog2(zoom, Zoom0Span(WidthPx), TempLonExtent,
                                     Zoom0Span(WidthPx), TempLatExtent)

C9_Witness ==
    /\ pc = "planned"
    /\ TempLatExtent > TempLonExtent
    /\ zoom = 16
    /\ ~IsClampedFloorMinLog2(zoom, Zoom0Span(WidthPx), TempLonExtent,
                              Zoom0Span(WidthPx), TempLatExtent)

ProbePlanned == probe.op = "plan" /\ probe.stage = "done"

(* q = 3000 * 2^(12 - z) *)
IsDefaultMargin(q, z) ==
    q.num * Pow2(z) = MarginBase * Pow2(MarginZoom) * q.den

-----------------------------------------------------------------------------
(* Properties of the city loop *)

Rendering == pc \in {"rendering", "basemap", "saved", "done"}

RenderedNames == {city_points[i].nom : i \in 1..Len(city_points)}

WarnedNames == {warnings[i] : i \in 1..Len(warnings)}

Within(p, b) ==
    /\ b.xmin <= p.x /\ p.x <= b.xmax
    /\ b.ymin <= p.y /\ p.y <= b.ymax

StrictlyOutside(p, b) == p.x < b.xmin \/ p.x > b.xmax \/ p.y < b.ymin \/ p.y > b.ymax

(* C11: once the final extent is set, every city whose resolved, re-projected *)
(* coordinate lies strictly outside it is absent from the cities that get a   *)
(* marker and label and has been logged as ignored, whether the bounded or    *)
(* the unbounded query resolved it; every city that gets a marker lies within *)
(* the final extent.                                                          *)
C11_OutsideFinalExtentNeverRendered ==
    Rendering =>
        /\ \A i \in 1..Len(geocode_calls) :
              LET c == geocode_calls[i]
              IN (c.pt.some /\ StrictlyOutside(ProjectPoint(c.pt), bounds))
                     => (c.ville \notin RenderedNames /\ c.ville \in WarnedNames)
        /\ \A j \in 1..Len(city_points) :
              ~StrictlyOutside(ProjectPoint(city_points[j].pt), bounds)

C11_Witness ==
    /\ pc = "done"
    /\ Len(warnings) = 2
    /\ \E i \in 1..Len(geocode_calls) :
          /\ geocode_calls[i].sent = <<"bounded">>
          /\ geocode_calls[i].pt.some
          /\ StrictlyOutside(ProjectPoint(geocode_calls[i].pt), bounds)
    /\ \E i \in 1..Len(geocode_calls) :
          /\ geocode_calls[i].sent = <<"bounded", "unbounded">>
          /\ geocode_calls[i].pt.some
          /\ StrictlyOutside(ProjectPoint(geocode_calls[i].pt), bounds)

(* C12 (as claimed): a resolved city is retained for rendering if and only if *)
(* its projected coordinate lies within the final, ratio-adjusted extent.     *)
C12_TestAgainstFinalExtent ==
    Rendering =>
        \A i \in 1..Len(geocode_calls) :
           LET c == geocode_calls[i]
           IN c.pt.some =>
                 ((c.ville \in RenderedNames) <=> Within(ProjectPoint(c.pt), bounds))

(* C12 (amended): a resolved city is retained for rendering if and only if    *)
(* its projected coordinate lies within the margin-buffered bounding box of   *)
(* the track, the box before any ratio adjustment; a city outside that box is *)
(* logged and dropped even when it lies inside the final extent.              *)
C12_TestAgainstBufferedBox ==
    Rendering =>
        \A i \in 1..Len(geocode_calls) :
           LET c == geocode_calls[i]
               inside == Within(ProjectPoint(c.pt), buffered_bounds)
           IN c.pt.some =>
                 /\ (c.ville \in RenderedNames) <=> inside
                 /\ (c.ville \in WarnedNames) <=> ~inside

C12_Witness ==
    /\ pc = "done"
    /\ module = "GenererCarte"
    /\ \E i \in 1..Len(geocode_calls) :
          /\ geocode_calls[i].pt.some
          /\ Within(ProjectPoint(geocode_calls[i].pt), bounds)
          /\ ~Within(ProjectPoint(geocode_calls[i].pt), buffered_bounds)
          /\ geocode_calls[i].ville \in WarnedNames
          /\ geocode_calls[i].ville \notin RenderedNames

BoundedAnswer(ville) == Gazetteer(ville).bounded

UnboundedAnswer(ville) == Gazetteer(ville).unbounded

BoundedEmpty(ville) ==
    BoundedAnswer(ville).status = "ok" /\ BoundedAnswer(ville).data = <<>>

BoundedFound(ville) ==
    BoundedAnswer(ville).status = "ok" /\ BoundedAnswer(ville).data # <<>>

(* C13: every geocode_city call sends the extent-bounded request first; it    *)
(* sends the unbounded request, second and last, exactly when the bounded     *)
(* request succeeded with an empty list; and when the bounded request gives   *)
(* at least one candidate it returns the first candidate's coordinate after   *)
(* that single request.                                                       *)
C13_BoundedThenUnbounded ==
    \A i \in 1..Len(geocode_calls) :
       LET c == geocode_calls[i]
       IN /\ Len(c.sent) \in 1..2
          /\ c.sent[1] = "bounded"
          /\ (Len(c.sent) = 2) <=> BoundedEmpty(c.ville)
          /\ Len(c.sent) = 2 => c.sent[2] = "unbounded"
          /\ BoundedFound(c.ville) =>
                (c.sent = <<"bounded">> /\ c.pt = BoundedAnswer(c.ville).data[1])

C13_Witness ==
    /\ Len(geocode_calls) = 2
    /\ geocode_requests = 3
    /\ BoundedAnswer(geocode_calls[1].ville).status # "ok"
    /\ geocode_calls[1].sent = <<"bounded">>
    /\ BoundedEmpty(geocode_calls[2].ville)
    /\ geocode_calls[2].sent = <<"bounded", "unbounded">>

(* A request of the call for this city fails (network, HTTP status, parsing) *)
RequestFails(ville) ==
    \/ BoundedAnswer(ville).status # "ok"
    \/ (BoundedEmpty(ville) /\ UnboundedAnswer(ville).status # "ok")

(* The coordinate the service gives for the city, None after a failure *)
AnsweredPoint(ville) ==
    IF BoundedFound(ville) THEN BoundedAnswer(ville).data[1]
    ELSE IF BoundedEmpty(ville) /\ UnboundedAnswer(ville).status = "ok"
            /\ UnboundedAnswer(ville).data # <<>>
         THEN UnboundedAnswer(ville).data[1]
         ELSE NoPoint

KeptAlone(ville) ==
    /\ AnsweredPoint(ville).some
    /\ Within(ProjectPoint(AnsweredPoint(ville)), buffered_bounds)

(* C14: a failure of a geocoding request only drops its city.  The call       *)
(* returns None and logs a message; generate_map does not stop in the city    *)
(* loop; the cities are geocoded in list order, all of them, and each one is  *)
(* kept or dropped as it would be alone; a run that ends has written the      *)
(* output image.                                                              *)
C14_GeocodingFailureDropsCity ==
    /\ \A i \in 1..Len(geocode_calls) :
          /\ geocode_calls[i].ville = city_list[i]
          /\ geocode_calls[i].pt = AnsweredPoint(city_list[i])
          /\ RequestFails(city_list[i]) =>
                (\E k \in 1..Len(geocode_calls[i].log) : geocode_calls[i].log[k] = "error")
    /\ pc = "failed" => (cities_left = 0 /\ basemap_extent # NoBox)
    /\ Rendering =>
          /\ Len(geocode_calls) = Len(city_list)
          /\ [j \in 1..Len(city_points) |-> city_points[j].nom]
                = SelectSeq(city_list, KeptAlone)
    /\ pc = "done" => output_written

C14_Witness ==
    /\ pc = "done"
    /\ output_written
    /\ Len(city_list) = 2
    /\ RequestFails(city_list[1])
    /\ ~geocode_calls[1].pt.some
    /\ Len(city_points) = 1
    /\ city_points[1].nom = city_list[2]

-----------------------------------------------------------------------------
(* Properties of the tile cache *)

EntryComplete(entry) == entry.png.state = "complete" /\ entry.pkl.state = "complete"

BothExist(entry) == entry.png.state # "absent" /\ entry.pkl.state # "absent"

(* C15: a call takes the hit branch only when both the raster file and the   *)
(* bounds record exist under its key; on a hit it calls the provider never   *)
(* and shows the persisted raster and bounds; on a miss (either file absent) *)
(* it calls the provider exactly once and, when it returns, both files exist *)
(* under the key, complete, with what that fetch gave.                       *)
C15_HitMissContract ==
    \A p \in Invocations :
       LET i == invocations[p]
           entry == cache_files[i.key]
       IN i.pc # "idle" =>
            /\ i.pc \in {"load_bounds", "load_img"} => (i.hit /\ BothExist(entry))
            /\ i.pc = "fetch" => (~i.hit /\ ~BothExist(entry))
            /\ i.hit => i.fetches = 0
            /\ (i.hit /\ i.pc = "done") =>
                  (i.img = entry.png.v /\ i.extent = entry.pkl.v /\ EntryComplete(entry))
            /\ (~i.hit /\ i.pc \notin {"check", "fetch"}) => i.fetches = 1
            /\ (~i.hit /\ i.pc = "done") =>
                  /\ entry = [png |-> Complete(i.fetched), pkl |-> Complete(i.fetched)]
                  /\ i.img = i.fetched
                  /\ i.extent = i.fetched

C15_Witness ==
    \E p \in Invocations, q \in Invocations :
       /\ invocations[p].pc = "done"
       /\ ~invocations[p].hit
       /\ invocations[p].calls = 2
       /\ invocations[p].fetched = 2
       /\ provider_calls[invocations[p].key] = 2
       /\ invocations[q].pc = "done"
       /\ invocations[q].hit
       /\ invocations[q].key = invocations[p].key
       /\ invocations[q].img = 2

HitsYieldStored ==
    \A p \in Invocations :
       (invocations[p].pc = "done" /\ invocations[p].hit) =>
           /\ invocations[p].img = cache_files[invocations[p].key].png.v
           /\ invocations[p].extent = cache_files[invocations[p].key].pkl.v

C17_NoLockNeeded ==
    /\ \A p \in Invocations :
          /\ invocations[p].error # "unreadable"
          /\ invocations[p].pc = "done" =>
                (invocations[p].img # 0 /\ invocations[p].extent = invocations[p].img)
    /\ (\A p \in Invocations : Quiet(p)) =>
          \A p \in Invocations :
             invocations[p].pc # "idle" => EntryComplete(cache_files[invocations[p].key])

-----------------------------------------------------------------------------
(* Properties of the cache key, the application and the failure handling *)

Round6(x) == (IF x < 0 THEN 0 - 1 ELSE 1) * RoundHalfEven(IF x < 0 THEN 0 - x ELSE x, 10)

RoundedArgs(a) ==
    <<Round6(a.xmin), Round6(a.ymin), Round6(a.xmax), Round6(a.ymax), a.zoom>>

(* C18 (as claimed): two argument lists that agree in the four coordinates   *)
(* rounded to six decimals and in the zoom get the same key, and (the hash   *)
(* being collision-free) two lists that differ after rounding in a           *)
(* coordinate, or differ in the zoom, get different keys.                    *)
C18_KeyOfRoundedArgs ==
    (probe.op = "key" /\ probe.stage = "done") =>
        ((RoundedArgs(probe.a) = RoundedArgs(probe.b)) <=> (probe.ka = probe.kb))

InGenerateMap == {t \in 1..Len(threads) : threads[t].at = "generate_map"}

(* C19 (as claimed): at any time at most one generate_map invocation is *)
(* executing in the process; two invocations never overlap.             *)
C19_SingleCaller == Cardinality(InGenerateMap) <= 1

(* C20 (as claimed): for a readable track with at least 2 surviving points,  *)
(* whatever the geocoder, the tile provider, the cache storage or the        *)
(* metadata step do, generate_map does not raise and the run ends with the   *)
(* output image written.                                                     *)
C20_OnlyFatalConditionsRaise ==
    (Filtered /\ SurvivingCount >= 2) =>
        (pc # "failed" /\ (pc = "done" => output_written))

-----------------------------------------------------------------------------
(* Properties of the metadata step, the stage order and the time zones *)

FirstKept == CHOOSE i \in 1..Len(TrackPoints) :
    /\ Survives(TrackPoints[i])
    /\ \A j \in 1..(i - 1) : ~Survives(TrackPoints[j])

(* The time of the first point of the rendered track *)
FirstPointDate == DateAt(NormalizePointTime(TrackPoints[FirstKept].time).t, 0)

(* C21 (as claimed): in a run whose metadata step met no failure, the output *)
(* carries the rating 5 and a capture time that is the reference image's     *)
(* embedded time minus 10 seconds when a reference image with an embedded    *)
(* time is given, and the time of the track's first point when no reference  *)
(* image is given.                                                           *)
C21_DateFromRefOrFirstPoint ==
    (pc = "done" /\ exif_tags.status # "error") =>
        /\ ref_image = "dated" =>
              exif_tags = [status |-> "applied",
                           date |-> DateAt(RefDateTimeOriginal, 0 - ExifOffsetSeconds),
                           rating |-> ExifRating]
        /\ ref_image = "none" =>
              exif_tags = [status |-> "applied", date |-> FirstPointDate,
                           rating |-> ExifRating]

StageRank(stage) ==
    CASE stage = "start" -> 0
      [] stage = "filtered" -> 1
      [] stage = "planned" -> 2
      [] stage = "rendering" -> 3
      [] stage = "basemap" -> 4
      [] stage = "saved" -> 5
      [] stage = "done" -> 6
      [] OTHER -> 7

ExtentPlanned == zoom # 0 /\ buffered_bounds # NoBox /\ line_proj # <<>>

(* C26: generate_map goes through its stages in one order and never back:   *)
(* load and filter, projection and extent planning, geocoding, basemap,     *)
(* output file, metadata; a run that has ended or raised does nothing more; *)
(* a geocoding or tile request or a cache access is only ever seen with the *)
(* extent planned, the output file only after the basemap, and metadata     *)
(* only with the output file written.                                       *)
C26_StrictStageOrder ==
    /\ [][/\ StageRank(pc') >= StageRank(pc)
          /\ pc \in {"done", "raised", "failed"} => pc' = pc]_vars
    /\ [](/\ (geocode_requests > 0 \/ geocode_calls # <<>>) => ExtentPlanned
          /\ (tile_fetches > 0 \/ makedirs_calls > 0) =>
                (ExtentPlanned /\ cities_left = 0 /\ basemap_extent # NoBox)
          /\ output_written => (basemap_extent # NoBox /\ axis_limits = basemap_extent)
          /\ (exif_written \/ exif_tags.status # "none") => output_written)

C26_Witness ==
    /\ pc = "done"
    /\ geocode_requests > 0
    /\ tile_fetches > 0
    /\ output_written
    /\ exif_written

(* C27: the filter makes the window bounds zone-naive, keeping their wall    *)
(* clock, converts a zone-aware point time to Europe/Paris and drops the     *)
(* zone, and takes a zone-naive point time as it is; whatever mix of aware   *)
(* and naive bounds and point times it is given, it compares zone-naive      *)
(* values only and never raises a mixed aware/naive error.                   *)
C27_NaiveComparison ==
    [][(pc = "start" /\ pc' # "start") =>
          /\ pc' \in {"filtered", "raised"}
          /\ start_time'.kind # "aware" /\ start_time'.t = start_time.t
          /\ end_time'.kind # "aware" /\ end_time'.t = end_time.t
          /\ (start_time.kind = "none") <=> (start_time'.kind = "none")
          /\ (end_time.kind = "none") <=> (end_time'.kind = "none")
          /\ \A p \in GpxPointSet(gpx) :
                /\ p.time.kind = "aware" =>
                      NormalizePointTime(p.time) = Naive(p.time.t + ParisOffset(p.time.t))
                /\ p.time.kind = "naive" => NormalizePointTime(p.time) = p.time
                /\ ~ComparisonRaises(p, start_time', end_time')]_vars

C27_Witness ==
    /\ pc = "filtered"
    /\ HasWindow
    /\ Len(points) = 2
    /\ \E p \in GpxPointSet(gpx) : p.time.kind = "aware"
    /\ \E p \in GpxPointSet(gpx) : p.time.kind = "naive"

-----------------------------------------------------------------------------
(* draw_arrows, map_generator.py lines 199-221 (GenererCarte.py lines       *)
(* 201-223), called at line 355 with min_spacing = 1000 / 2^(zoom - 12).    *)
(* Vertices are in whole metres on a grid whose distances (0, 750, 1000 and *)
(* 1250 m) are whole, so that the square roots and the sums of the code are *)
(* exact; indices count from 0 as in the code.                              *)

MaxVertices == 4

ArrowVertices == {<<0, 0>>, <<750, 0>>, <<750, 1000>>, <<0, 1000>>}

ArrowZooms == {11, 12, 13}

ArrowLines == UNION {[1..n -> ArrowVertices] : n \in 2..MaxVertices}

AbsDiff(a, b) == IF a >= b THEN a - b ELSE b - a

(* line 202: np.sqrt(np.sum(np.diff(coords, axis=0)**2, axis=1)) *)
SegmentLength(a, b) ==
    LET sq == (a[1] - b[1]) * (a[1] - b[1]) + (a[2] - b[2]) * (a[2] - b[2])
    IN CHOOSE d \in 0..(AbsDiff(a[1], b[1]) + AbsDiff(a[2], b[2])) : d * d = sq

(* line 203: cumdist[i] for the vertex of index i (0 at the first vertex) *)
RECURSIVE CumDist(_, _)
CumDist(coords, i) ==
    IF i = 0 THEN 0
    ELSE CumDist(coords, i - 1) + SegmentLength(coords[i], coords[i + 1])

(* line 355: 1000 / (2 ** (zoom - 12)), a rational number of metres *)
MinSpacing(z) ==
    IF z >= 12 THEN [num |-> 1000, den |-> Pow2(z - 12)]
    ELSE [num |-> 1000 * Pow2(12 - z), den |-> 1]

(* d >= min_spacing and d > min_spacing for a whole d *)
AtLeast(d, r) == d * r.den >= r.num

MoreThan(d, r) == d * r.den > r.num

(* Mutant: a vertex emitted only when the distance exceeds the spacing *)
RECURSIVE ArrowLoop_Strict(_, _, _, _, _)
ArrowLoop_Strict(coords, min_spacing, i, last_d, indices) ==
    IF i >= Len(coords) THEN indices
    ELSE LET d == CumDist(coords, i)
         IN IF MoreThan(d - last_d, min_spacing)
            THEN ArrowLoop_Strict(coords, min_spacing, i + 1, d, Append(indices, i))
            ELSE ArrowLoop_Strict(coords, min_spacing, i + 1, last_d, indices)

draw_arrows_strict(coords, min_spacing) ==
    Append(ArrowLoop_Strict(coords, min_spacing, 0, 0, <<0>>), Len(coords) - 1)

(* lines 207-210: for i, d in enumerate(cumdist) *)
RECURSIVE ArrowLoop(_, _, _, _, _)
ArrowLoop(coords, min_spacing, i, last_d, indices) ==
    IF i >= Len(coords) THEN indices
    ELSE LET d == CumDist(coords, i)
         IN IF AtLeast(d - last_d, min_spacing)
            THEN ArrowLoop(coords, min_spacing, i + 1, d, Append(indices, i))
            ELSE ArrowLoop(coords, min_spacing, i + 1, last_d, indices)

(* lines 205-211: the vertex indices between which the arrows are drawn *)
draw_arrows(coords, min_spacing) ==
    Append(ArrowLoop(coords, min_spacing, 0, 0, <<0>>), Len(coords) - 1)

(* lines 213-221: one arrow from each index of the list to the next one *)
Arrows(coords, indices) ==
    [j \in 1..(Len(indices) - 1) |->
        [from |-> coords[indices[j] + 1], to |-> coords[indices[j + 1] + 1]]]

InitArrows ==
    /\ PipelineIdle
    /\ CacheIdle
    /\ AppIdle
    /\ \E coords \in ArrowLines, z \in ArrowZooms :
         probe = [op |-> "arrows", stage |-> "args", coords |-> coords, zoom |-> z,
                  indices |-> <<>>, arrows |-> <<>>]

(* line 355 *)
ProbeArrows ==
    /\ probe.op = "arrows"
    /\ probe.stage = "args"
    /\ LET indices == draw_arrows(probe.coords, MinSpacing(probe.zoom))
       IN probe' = [probe EXCEPT !.stage = "done",
                                 !.indices = indices,
                                 !.arrows = Arrows(probe.coords, indices)]
    /\ UNCHANGED <<pipeline_vars, cache_vars, app_vars>>

NextArrows == ProbeArrows

SpecArrows == InitArrows /\ [][NextArrows]_vars

ArrowsDrawn == probe.op = "arrows" /\ probe.stage = "done"

(* The entries of the index list between its first and its last one *)
LoopIndices == SubSeq(probe.indices, 2, Len(probe.indices) - 1)

(* The entry before the j-th loop entry: the first vertex for the first one *)
PreviousEmitted(j) == IF j = 1 THEN 0 ELSE LoopIndices[j - 1]

GapFrom(from, to) == CumDist(probe.coords, to) - CumDist(probe.coords, from)

ListFraming ==
    /\ Len(probe.indices) >= 2
    /\ probe.indices[1] = 0
    /\ probe.indices[Len(probe.indices)] = Len(probe.coords) - 1
    /\ \A j \in 1..(Len(probe.indices) - 1) : probe.indices[j] <= probe.indices[j + 1]
    /\ \A j \in 1..Len(LoopIndices) : LoopIndices[j] \in 1..(Len(probe.coords) - 1)

LastEmitted == IF LoopIndices = <<>> THEN 0 ELSE LoopIndices[Len(LoopIndices)]

(* C23 (as claimed): the list begins with the first vertex, ends with the   *)
(* last one and follows the track, and a vertex is in it between the two    *)
(* exactly when its along-track distance from the previously emitted vertex *)
(* exceeds 1000 / 2^(zoom - 12) metres.                                     *)
C23_EmittedWhenSpacingExceeded ==
    ArrowsDrawn =>
        /\ ListFraming
        /\ \A j \in 1..Len(LoopIndices) :
              /\ PreviousEmitted(j) < LoopIndices[j]
              /\ MoreThan(GapFrom(PreviousEmitted(j), LoopIndices[j]),
                          MinSpacing(probe.zoom))
              /\ \A i \in (PreviousEmitted(j) + 1)..(LoopIndices[j] - 1) :
                    ~MoreThan(GapFrom(PreviousEmitted(j), i), MinSpacing(probe.zoom))
        /\ \A i \in (LastEmitted + 1)..(Len(probe.coords) - 1) :
              ~MoreThan(GapFrom(LastEmitted, i), MinSpacing(probe.zoom))

(* C23 (amended): the list begins with the first vertex, ends with the last *)
(* one and never goes back along the track, and a vertex after the first,   *)
(* the last one included, is in it between the two exactly when its         *)
(* along-track distance from the previously emitted vertex is at least      *)
(* 1000 / 2^(zoom - 12) metres.                                             *)
C23_EmittedWhenSpacingReached ==
    ArrowsDrawn =>
        /\ ListFraming
        /\ \A j \in 1..Len(LoopIndices) :
              /\ PreviousEmitted(j) < LoopIndices[j]
              /\ AtLeast(GapFrom(PreviousEmitted(j), LoopIndices[j]),
                         MinSpacing(probe.zoom))
              /\ \A i \in (PreviousEmitted(j) + 1)..(LoopIndices[j] - 1) :
                    ~AtLeast(GapFrom(PreviousEmitted(j), i), MinSpacing(probe.zoom))
        /\ \A i \in (LastEmitted + 1)..(Len(probe.coords) - 1) :
              ~AtLeast(GapFrom(LastEmitted, i), MinSpacing(probe.zoom))

(* A vertex exactly one spacing after the previously emitted one is emitted, *)
(* and a nearer one before it is not                                         *)
C23_Witness ==
    /\ ArrowsDrawn
    /\ Len(probe.coords) = 4
    /\ probe.zoom = 12
    /\ probe.indices = <<0, 2, 3>>
    /\ GapFrom(0, 1) = 0
    /\ GapFrom(0, 2) = 1000

(* C30 (as claimed): each entry of the index list is strictly greater than *)
(* the one before it, so that every arrow joins two distinct vertices.     *)
C30_IndicesStrictlyIncrease ==
    ArrowsDrawn =>
        \A j \in 1..(Len(probe.indices) - 1) : probe.indices[j] < probe.indices[j + 1]

-----------------------------------------------------------------------------
(* Label placement: parse_position, map_generator.py lines 53-81, called at *)
(* line 347, and adjust_text_position, lines 84-103, called at line 369     *)
(* (GenererCarte.py lines 77-104, 106-125).  A position code is None or a   *)
(* string of characters; the label anchor is kept in hundredths of a unit,  *)
(* so that 1% of the extent is exact.                                       *)

MaxCodeLen == 2

CodeChars == {"N", "S", "E", "O", "n", "s", "e", "o", "X"}

NoCode == [given |-> FALSE, text |-> <<>>]

Code(text) == [given |-> TRUE, text |-> text]

PositionCodes ==
    {NoCode} \cup {Code(t) : t \in UNION {[1..n -> CodeChars] : n \in 0..MaxCodeLen}}

(* str.upper() on one character *)
UpperChar(c) ==
    CASE c = "n" -> "N"
      [] c = "s" -> "S"
      [] c = "e" -> "E"
      [] c = "o" -> "O"
      [] OTHER -> c

Upper(text) == [i \in 1..Len(text) |-> UpperChar(text[i])]

(* 'N' in position_str *)
HasChar(text, c) == \E i \in 1..Len(text) : text[i] = c

(* parse_position returns None: the placement is left to the automatic rule *)
NoPosition == [forced |-> FALSE, ha |-> "none", va |-> "none", horiz_offset |-> 0,
               vert_offset |-> 0]

Position(ha, va, horiz_offset, vert_offset) ==
    [forced |-> TRUE, ha |-> ha, va |-> va, horiz_offset |-> horiz_offset,
     vert_offset |-> vert_offset]

PositionOf(text) ==
    Position(IF HasChar(text, "E") THEN "left"
             ELSE IF HasChar(text, "O") THEN "right" ELSE "center",
             IF HasChar(text, "N") THEN "bottom"
             ELSE IF HasChar(text, "S") THEN "top" ELSE "center",
             IF HasChar(text, "E") THEN 1 ELSE IF HasChar(text, "O") THEN 0 - 1 ELSE 0,
             IF HasChar(text, "N") THEN 1 ELSE IF HasChar(text, "S") THEN 0 - 1 ELSE 0)

(* Mutant: the code read as it is typed, without upper() *)
parse_position_as_typed(position_str) ==
    IF ~position_str.given \/ position_str.text = <<>> THEN NoPosition
    ELSE PositionOf(position_str.text)

(* lines 58-81 *)
parse_position(position_str) ==
    IF ~position_str.given \/ position_str.text = <<>> THEN NoPosition
    ELSE PositionOf(Upper(position_str.text))

(* line 347: parse_position(position) if position else None *)
ForcedPos(position) ==
    IF position.given /\ position.text # <<>> THEN parse_position(position)
    ELSE NoPosition

(* lines 86-101: alignment, signs, and the anchor of the text in hundredths *)
adjust_text_position(city_x, city_y, b, forced_position) ==
    LET auto_ha == IF 2 * city_x < b.xmin + b.xmax THEN "left" ELSE "right"
        auto_va == IF 2 * city_y < b.ymin + b.ymax THEN "bottom" ELSE "top"
        ha == IF forced_position.forced THEN forced_position.ha ELSE auto_ha
        va == IF forced_position.forced THEN forced_position.va ELSE auto_va
        horiz_offset == IF forced_position.forced THEN forced_position.horiz_offset
                        ELSE IF ha = "left" THEN 1 ELSE 0 - 1
        vert_offset == IF forced_position.forced THEN forced_position.vert_offset
                       ELSE IF va = "bottom" THEN 1 ELSE 0 - 1
    IN [ha |-> ha, va |-> va, horiz_offset |-> horiz_offset, vert_offset |-> vert_offset,
        x100 |-> 100 * city_x + (b.xmax - b.xmin) * horiz_offset,
        y100 |-> 100 * city_y + (b.ymax - b.ymin) * vert_offset]

LabelExtents == {Box(0, 0, 400, 300), Box(0 - 50, 10, 27, 71)}

(* A city left of, at and right of the middle of the extent, on each axis *)
LabelSpots(lo, hi) == {lo, (lo + hi) \div 2, hi}

NoLabel == [ha |-> "none", va |-> "none", horiz_offset |-> 0, vert_offset |-> 0,
            x100 |-> 0, y100 |-> 0]

InitLabel ==
    /\ PipelineIdle
    /\ CacheIdle
    /\ AppIdle
    /\ \E code \in PositionCodes, b \in LabelExtents :
         \E x \in LabelSpots(b.xmin, b.xmax), y \in LabelSpots(b.ymin, b.ymax) :
            probe = [op |-> "label", stage |-> "args", code |-> code, extent |-> b,
                     city_x |-> x, city_y |-> y, forced_pos |-> NoPosition,
                     label |-> NoLabel]

(* lines 347 and 369 for one city *)
ProbeLabel ==
    /\ probe.op = "label"
    /\ probe.stage = "args"
    /\ LET forced_pos == ForcedPos(probe.code)
       IN probe' = [probe EXCEPT
            !.stage = "done",
            !.forced_pos = forced_pos,
            !.label = adjust_text_position(probe.city_x, probe.city_y, probe.extent,
                                           forced_pos)]
    /\ UNCHANGED <<pipeline_vars, cache_vars, app_vars>>

NextLabel == ProbeLabel

SpecLabel == InitLabel /\ [][NextLabel]_vars

LabelPlaced == probe.op = "label" /\ probe.stage = "done"

(* The code names the letter, in either case *)
Names(upper, lower) ==
    \E i \in 1..Len(probe.code.text) : probe.code.text[i] \in {upper, lower}

(* A compass code names at most one direction on each axis *)
CompassCode == ~(Names("N", "n") /\ Names("S", "s")) /\ ~(Names("E", "e") /\ Names("O", "o"))

CodeGiven == probe.code.given /\ probe.code.text # <<>>

(* C24: the placement is forced exactly when a code is given (not None, not *)
(* empty).  A compass code gives, in either case of its letters, N: bottom  *)
(* and +1, S: top and -1, E: left and +1, O: right and -1, and center and 0 *)
(* on an axis it does not name.  Without a code a point left of (below) the *)
(* extent midpoint gives left (bottom) and +1, any other point right (top)  *)
(* and -1.  In both modes the label is anchored at the point plus 1% of the *)
(* extent width (height) times the sign.                                    *)
C24_ForcedOrAutomaticPlacement ==
    LabelPlaced =>
        LET l == probe.label
            b == probe.extent
        IN /\ probe.forced_pos.forced <=> CodeGiven
           /\ (CodeGiven /\ CompassCode) =>
                 /\ Names("N", "n") => (l.va = "bottom" /\ l.vert_offset = 1)
                 /\ Names("S", "s") => (l.va = "top" /\ l.vert_offset = 0 - 1)
                 /\ ~(Names("N", "n") \/ Names("S", "s")) =>
                       (l.va = "center" /\ l.vert_offset = 0)
                 /\ Names("E", "e") => (l.ha = "left" /\ l.horiz_offset = 1)
                 /\ Names("O", "o") => (l.ha = "right" /\ l.horiz_offset = 0 - 1)
                 /\ ~(Names("E", "e") \/ Names("O", "o")) =>
                       (l.ha = "center" /\ l.horiz_offset = 0)
           /\ ~CodeGiven =>
                 /\ IF 2 * probe.city_x < b.xmin + b.xmax
                    THEN l.ha = "left" /\ l.horiz_offset = 1
                    ELSE l.ha = "right" /\ l.horiz_offset = 0 - 1
                 /\ IF 2 * probe.city_y < b.ymin + b.ymax
                    THEN l.va = "bottom" /\ l.vert_offset = 1
                    ELSE l.va = "top" /\ l.vert_offset = 0 - 1
           /\ 100 * (l.x100 - 100 * probe.city_x) = (b.xmax - b.xmin) * l.horiz_offset * 100
           /\ 100 * (l.y100 - 100 * probe.city_y) = (b.ymax - b.ymin) * l.vert_offset * 100

(* A lower-case two-letter code forces the label against the automatic rule *)
C24_Witness ==
    /\ LabelPlaced
    /\ probe.code = Code(<<"s", "o">>)
    /\ probe.extent = Box(0, 0, 400, 300)
    /\ probe.city_x = 0
    /\ probe.city_y = 0
    /\ probe.label = [ha |-> "right", va |-> "top", horiz_offset |-> 0 - 1,
                      vert_offset |-> 0 - 1, x100 |-> 0 - 400, y100 |-> 0 - 300]

-----------------------------------------------------------------------------
(* The shells: how the desktop application (app.py, _generate_carte_thread,  *)
(* lines 1353-1437) and the command line (GenererCarte.py, lines 258-291 and *)
(* 501-532) turn what the user typed into the arguments of generate_map.     *)
(* Strings are sequences of characters; a time of day is split on ':' into   *)
(* parts; a moment is a day and a number of seconds of that day.             *)

MaxMarginLen == 2

MarginChars == {"7", "-", " ", "x"}

MarginStrs == UNION {[1..n -> MarginChars] : n \in 0..MaxMarginLen}

Digits == {"7"}

DigitValue(c) == IF c = "7" THEN 7 ELSE 0

ValueError == [ok |-> FALSE, v |-> 0]

IntOf(v) == [ok |-> TRUE, v |-> v]

RECURSIVE LStrip(_)
LStrip(text) == IF text # <<>> /\ Head(text) = " " THEN LStrip(Tail(text)) ELSE text

RECURSIVE RStrip(_)
RStrip(text) ==
    IF text # <<>> /\ text[Len(text)] = " " THEN RStrip(SubSeq(text, 1, Len(text) - 1))
    ELSE text

RECURSIVE Decimal(_)
Decimal(digits) ==
    IF digits = <<>> THEN 0
    ELSE 10 * Decimal(SubSeq(digits, 1, Len(digits) - 1)) + DigitValue(digits[Len(digits)])

(* int(text): blanks around, an optional sign, at least one digit *)
ParseInt(text) ==
    LET t == RStrip(LStrip(text))
        negative == t # <<>> /\ Head(t) = "-"
        body == IF negative THEN Tail(t) ELSE t
    IN IF body # <<>> /\ \A i \in 1..Len(body) : body[i] \in Digits
       THEN IntOf(IF negative THEN 0 - Decimal(body) ELSE Decimal(body))
       ELSE ValueError

(* Mutant: the ValueError of int(margin_str) left to propagate *)
ParseMargin_Raising(margin_str) ==
    IF margin_str = <<>> THEN [marge |-> NoMarge, warned |-> FALSE, raised |-> FALSE]
    ELSE IF ParseInt(margin_str).ok
    THEN [marge |-> Marge(ParseInt(margin_str).v), warned |-> FALSE, raised |-> FALSE]
    ELSE [marge |-> NoMarge, warned |-> FALSE, raised |-> TRUE]

(* app.py lines 1378-1384 *)
ParseMargin(margin_str) ==
    IF margin_str = <<>> THEN [marge |-> NoMarge, warned |-> FALSE, raised |-> FALSE]
    ELSE IF ParseInt(margin_str).ok
    THEN [marge |-> Marge(ParseInt(margin_str).v), warned |-> FALSE, raised |-> FALSE]
    ELSE [marge |-> NoMarge, warned |-> TRUE, raised |-> FALSE]

(* The date field: empty, a day in %Y-%m-%d, or text strptime rejects *)
EmptyDate == [kind |-> "empty", day |-> 0]

ValidDate(d) == [kind |-> "valid", day |-> d]

BadDate == [kind |-> "invalid", day |-> 0]

DateStrs == {EmptyDate, ValidDate(1), BadDate}

(* The parts of a time field between ':' : a number, or text int() rejects *)
TimeParts == {IntOf(10), IntOf(30), ValueError}

(* The fields tried: nothing, HH, HH:MM, and two fields with seconds *)
TimeStrs ==
    UNION {[1..n -> TimeParts] : n \in 0..2}
        \cup {<<IntOf(10), IntOf(30), IntOf(30)>>, <<IntOf(10), IntOf(30), ValueError>>}

Moment(day, sec) == [day |-> day, sec |-> sec]

NoWindow == [given |-> FALSE, start |-> Moment(0, 0), end |-> Moment(0, 0)]

Window(start, end) == [given |-> TRUE, start |-> start, end |-> end]

Before(a, b) == a.day < b.day \/ (a.day = b.day /\ a.sec <= b.sec)

LastHour == 23

LastMinute == 59

(* lines 1399-1410: the hour, minute and second of the field, 0 for a part *)
(* that is not given; int() or datetime.replace raise ValueError           *)
TimeOfDay(time_str) ==
    LET hour == time_str[1]
        minute == IF Len(time_str) > 1 THEN time_str[2] ELSE IntOf(0)
        second == IF Len(time_str) > 2 THEN time_str[3] ELSE IntOf(0)
    IN IF /\ hour.ok /\ minute.ok /\ second.ok
          /\ hour.v \in 0..LastHour
          /\ minute.v \in 0..LastMinute
          /\ second.v \in 0..LastMinute
       THEN IntOf(3600 * hour.v + 60 * minute.v + second.v)
       ELSE ValueError

(* lines 1387-1412: the window of the application *)
AppWindow(date_str, start_time_str, end_time_str) ==
    IF date_str.kind = "empty" THEN [raised |-> FALSE, window |-> NoWindow]
    ELSE IF date_str.kind = "invalid" THEN [raised |-> TRUE, window |-> NoWindow]
    ELSE LET start == IF start_time_str = <<>> THEN IntOf(0)
                      ELSE TimeOfDay(start_time_str)
             end == IF end_time_str = <<>>
                    THEN IntOf(3600 * LastHour + 60 * LastMinute + LastMinute)
                    ELSE TimeOfDay(end_time_str)
         IN IF start.ok /\ end.ok
            THEN [raised |-> FALSE,
                  window |-> Window(Moment(date_str.day, start.v),
                                    Moment(date_str.day, end.v))]
            ELSE [raised |-> TRUE, window |-> NoWindow]

(* A --range argument: a day and a second of that day, or text strptime rejects *)
DateTime(day, sec) == [ok |-> TRUE, day |-> day, sec |-> sec]

BadDateTime == [ok |-> FALSE, day |-> 0, sec |-> 0]

DateTimeStrs == {DateTime(1, 36000), DateTime(1, 37800), DateTime(2, 36000), BadDateTime}

NoRange == [given |-> FALSE, start |-> BadDateTime, end |-> BadDateTime]

Range(start, end) == [given |-> TRUE, start |-> start, end |-> end]

(* GenererCarte.py lines 258-291: parse_date_range; sys.exit(1) is `raised` *)
parse_date_range(date_str, range) ==
    IF date_str.kind = "valid"
    THEN [raised |-> FALSE,
          window |-> Window(Moment(date_str.day, 0),
                            Moment(date_str.day,
                                   3600 * LastHour + 60 * LastMinute + LastMinute))]
    ELSE IF date_str.kind = "invalid" THEN [raised |-> TRUE, window |-> NoWindow]
    ELSE IF ~range.given THEN [raised |-> FALSE, window |-> NoWindow]
    ELSE IF ~range.start.ok \/ ~range.end.ok THEN [raised |-> TRUE, window |-> NoWindow]
    ELSE LET start == Moment(range.start.day, range.start.sec)
             end == Moment(range.end.day, range.end.sec)
         IN IF ~Before(start, end) THEN [raised |-> TRUE, window |-> NoWindow]
            ELSE [raised |-> FALSE, window |-> Window(start, end)]

NoCallArgs == [marge |-> NoMarge, window |-> NoWindow]

ShellZooms == {11, 12, 13}

InitShell ==
    /\ PipelineIdle
    /\ CacheIdle
    /\ AppIdle
    /\ \E margin_str \in MarginStrs, date_str \in DateStrs :
         \/ \E start_time_str \in TimeStrs, end_time_str \in TimeStrs :
               probe = [op |-> "shell", shell |-> "app", stage |-> "args",
                        margin_str |-> margin_str, date_str |-> date_str,
                        start_time_str |-> start_time_str,
                        end_time_str |-> end_time_str, range |-> NoRange,
                        call |-> NoCallArgs, log |-> {}, zoom |-> 0,
                        buffer_size |-> NoRational]
         \/ \E range \in {NoRange} \cup
                         {Range(a, b) : a \in DateTimeStrs, b \in DateTimeStrs} :
               /\ range.given => date_str = EmptyDate
               /\ probe = [op |-> "shell", shell |-> "cli", stage |-> "args",
                           margin_str |-> margin_str, date_str |-> date_str,
                           start_time_str |-> <<>>, end_time_str |-> <<>>,
                           range |-> range, call |-> NoCallArgs, log |-> {},
                           zoom |-> 0, buffer_size |-> NoRational]

(* app.py lines 1378-1425: the margin, the window, then the generate_map    *)
(* call; an exception is logged by the handler of lines 1436-1437 and the   *)
(* thread ends without a call.                                              *)
AppParse ==
    /\ probe.op = "shell"
    /\ probe.shell = "app"
    /\ probe.stage = "args"
    /\ LET m == ParseMargin(probe.margin_str)
           w == AppWindow(probe.date_str, probe.start_time_str, probe.end_time_str)
           warned == IF m.warned THEN {"invalid_margin"} ELSE {}
       IN IF m.raised
          THEN probe' = [probe EXCEPT !.stage = "rejected", !.log = {"error"}]
          ELSE IF w.raised
          THEN probe' = [probe EXCEPT !.stage = "rejected",
                                      !.log = warned \cup {"date_format", "error"}]
          ELSE probe' = [probe EXCEPT !.stage = "called", !.log = warned,
                                      !.call = [marge |-> m.marge, window |-> w.window]]
    /\ UNCHANGED <<pipeline_vars, cache_vars, app_vars>>

(* GenererCarte.py lines 343-357 and 501-532: argparse converts --marge with *)
(* int and exits on a ValueError; then parse_date_range; then the call.      *)
(* An empty margin_str stands for no --marge option.                         *)
CliParse ==
    /\ probe.op = "shell"
    /\ probe.shell = "cli"
    /\ probe.stage = "args"
    /\ LET m == ParseInt(probe.margin_str)
           w == parse_date_range(probe.date_str, probe.range)
       IN IF probe.margin_str # <<>> /\ ~m.ok
          THEN probe' = [probe EXCEPT !.stage = "rejected", !.log = {"usage"}]
          ELSE IF w.raised
          THEN probe' = [probe EXCEPT !.stage = "rejected", !.log = {"date_format"}]
          ELSE probe' = [probe EXCEPT
                           !.stage = "called",
                           !.call = [marge |-> IF probe.margin_str = <<>> THEN NoMarge
                                               ELSE Marge(m.v),
                                     window |-> w.window]]
    /\ UNCHANGED <<pipeline_vars, cache_vars, app_vars>>

(* map_generator.py lines 316-327: the margin generate_map uses at its zoom *)
ShellPlan ==
    /\ probe.op = "shell"
    /\ probe.stage = "called"
    /\ \E z \in ShellZooms :
         probe' = [probe EXCEPT !.stage = "planned", !.zoom = z,
                                !.buffer_size = BufferSizeFor(probe.call.marge, z)]
    /\ UNCHANGED <<pipeline_vars, cache_vars, app_vars>>

NextShell ==
    \/ AppParse
    \/ CliParse
    \/ ShellPlan

SpecShell == InitShell /\ [][NextShell]_vars

Spaces(n) == [i \in 1..n |-> " "]

Sevens(n) == [i \in 1..n |-> "7"]

(* The text is an integer as int() reads one *)
ReadsAsInteger(text) ==
    \E a \in 0..Len(text), b \in 0..Len(text), n \in 1..Len(text) :
        \E sign \in {<<>>, <<"-">>} :
            text = Spaces(a) \o sign \o Sevens(n) \o Spaces(b)

BadTimeField(time_str) ==
    /\ time_str # <<>>
    /\ \/ \E i \in 1..Len(time_str) : ~time_str[i].ok
       \/ time_str[1].v > LastHour
       \/ \E i \in 2..Len(time_str) : time_str[i].v > LastMinute

(* The date and time fields cannot be read: the one reason left to the *)
(* application for not calling generate_map                            *)
DateUnreadable ==
    \/ probe.date_str.kind = "invalid"
    \/ /\ probe.date_str.kind = "valid"
       /\ (BadTimeField(probe.start_time_str) \/ BadTimeField(probe.end_time_str))

UnparseableMargin ==
    /\ probe.op = "shell"
    /\ probe.shell = "app"
    /\ probe.stage # "args"
    /\ probe.margin_str # <<>>
    /\ ~ReadsAsInteger(probe.margin_str)

(* C25: in the desktop application a margin that does not read as an        *)
(* integer is answered by a warning; generate_map is called exactly as with *)
(* no margin typed, that is unless the date fields cannot be read, without  *)
(* an override, and uses the margin 3000 * 2^(12 - zoom).                   *)
C25_UnparseableMarginFallsBack ==
    UnparseableMargin =>
        /\ "invalid_margin" \in probe.log
        /\ (probe.stage = "rejected") <=> DateUnreadable
        /\ probe.stage \in {"called", "planned"} => probe.call.marge = NoMarge
        /\ probe.stage = "planned" =>
              IF probe.zoom <= 12
              THEN probe.buffer_size = [num |-> 3000 * 2 ^ (12 - probe.zoom), den |-> 1]
              ELSE probe.buffer_size.num * 2 ^ (probe.zoom - 12) =
                      3000 * probe.buffer_size.den

C25_Witness ==
    /\ UnparseableMargin
    /\ probe.margin_str = <<"7", "x">>
    /\ probe.stage = "planned"
    /\ probe.zoom = 13
    /\ probe.buffer_size = [num |-> 3000, den |-> 2]
    /\ probe.log = {"invalid_margin"}

(* C28 (as claimed): every generate_map call a shell makes with a time *)
(* window has start <= end.                                            *)
C28_WindowOrdered ==
    (probe.op = "shell" /\ probe.stage \in {"called", "planned"} /\ probe.call.window.given)
        => Before(probe.call.window.start, probe.call.window.end)


Finishes(t) == threads[t].at = "generate_map" /\ threads'[t].at = "finished"

Fails(t) == threads[t].at = "generate_map" /\ threads'[t].at = "failed"

(* C29 (as claimed): a failed generation leaves the flags of its action as  *)
(* they are; a worker that finishes when the parameters of its action are   *)
(* no longer those it has read leaves the flags as they are too, so that an *)
(* action edited while its worker ran is still dirty and checked; and an    *)
(* action stops being dirty only when a worker that has read its current    *)
(* parameters finishes.                                                     *)
C29_CleanOnlyForCurrentParams ==
    [][/\ \A t \in 1..Len(threads) :
             LET a == threads[t].action
             IN /\ Fails(t) => actions'[a] = actions[a]
                /\ (Finishes(t) /\ threads[t].params # actions[a].params) =>
                      /\ actions'[a].dirty = actions[a].dirty
                      /\ actions'[a].checked = actions[a].checked
       /\ \A a \in AppActions :
             (actions[a].dirty /\ ~actions'[a].dirty) =>
                 \E t \in 1..Len(threads) :
                     /\ threads[t].action = a
                     /\ Finishes(t)
                     /\ threads[t].params = actions[a].params]_vars

====
